---- MODULE Spec2Model ----
(***************************************************************************)
(* The registry builder of ui.edbn.me (scripts/update-registry.mjs): the   *)
(* component map, the inline-dependency resolver, the file reads, the      *)
(* manifest emitter, the index builder and the main batch loop.            *)
(***************************************************************************)
EXTENDS Integers, Sequences, FiniteSets, TLC

\* ------------------------------------------------------------------------
\* Bounds of the enumerated registry maps
\* ------------------------------------------------------------------------
MaxFiles == 2
MaxDeps == 2

\* Bounds of the scroll-lock model: hook instances on the page, and the
\* largest pixel length whose text form is parsed
MaxInstances == 2
MaxPx == 40

\* Bound of the controllable-state model: setter calls in one behaviour
MaxSetterCalls == 3

\* Bound of the alert-dialog model: dialogs on the page
MaxDialogs == 2

\* Bounds of the battery model: subscribe callbacks, and then-callbacks
\* one of them has waiting
MaxSubscribers == 2
MaxPending == 2

\* ------------------------------------------------------------------------
\* Generic helpers
\* ------------------------------------------------------------------------
Range(s) == {s[k] : k \in 1..Len(s)}

SeqsUpTo(S, lo, hi) == UNION {[1..n -> S] : n \in lo..hi}

RECURSIVE SumLens(_)
SumLens(ss) == IF ss = <<>> THEN 0 ELSE Len(Head(ss)) + SumLens(Tail(ss))

RECURSIVE Concat(_)
Concat(ss) == IF ss = <<>> THEN <<>> ELSE Head(ss) \o Concat(Tail(ss))

\* ------------------------------------------------------------------------
\* The shipped component map (Object.entries order)
\* ------------------------------------------------------------------------
ShippedComponents ==
    <<
      [name |-> "button",
       type |-> "registry:ui",
       title |-> "Button",
       description |-> "Animated button component with press feedback, loading states, and icon support.",
       dependencies |-> <<"@radix-ui/react-slot", "class-variance-authority", "motion", "@phosphor-icons/react", "tw-animate-css">>,
       registryDependencies |-> <<"utils">>,
       inlineDependencies |-> <<"motion-provider", "icons">>,
       files |-> <<[path |-> "components/ui/button.tsx", type |-> "registry:ui"]>>,
       cssVars |-> FALSE,
       tailwind |-> FALSE],
      [name |-> "alert-dialog",
       type |-> "registry:ui",
       title |-> "Alert Dialog",
       description |-> "Animated modal dialog with morphing animations, focus trap, and controlled/uncontrolled state.",
       dependencies |-> <<"motion", "@phosphor-icons/react", "tw-animate-css">>,
       registryDependencies |-> <<"utils", "button">>,
       inlineDependencies |-> <<"motion-provider", "animations", "tokens", "use-stable-id", "use-controllable-state">>,
       files |-> <<[path |-> "components/ui/alert-dialog.tsx", type |-> "registry:ui"]>>,
       cssVars |-> TRUE,
       tailwind |-> TRUE],
      [name |-> "popover",
       type |-> "registry:ui",
       title |-> "Popover",
       description |-> "Animated popover component with morphing transitions, focus trap, and click-outside handling.",
       dependencies |-> <<"motion", "tw-animate-css">>,
       registryDependencies |-> <<"utils">>,
       inlineDependencies |-> <<"motion-provider", "animations", "tokens", "use-stable-id", "use-controllable-state", "use-click-outside">>,
       files |-> <<[path |-> "components/ui/popover.tsx", type |-> "registry:ui"]>>,
       cssVars |-> TRUE,
       tailwind |-> TRUE],
      [name |-> "dropdown-menu",
       type |-> "registry:ui",
       title |-> "Dropdown Menu",
       description |-> "Animated dropdown menu with smooth spring animations and staggered item reveals.",
       dependencies |-> <<"@radix-ui/react-dropdown-menu", "motion", "@phosphor-icons/react", "tw-animate-css">>,
       registryDependencies |-> <<"utils">>,
       inlineDependencies |-> <<"motion-provider", "animations", "tokens">>,
       files |-> <<[path |-> "components/ui/dropdown-menu.tsx", type |-> "registry:ui"]>>,
       cssVars |-> TRUE,
       tailwind |-> TRUE],
      [name |-> "motion-provider",
       type |-> "registry:component",
       title |-> "Motion Provider",
       description |-> "Global animation configuration provider with reduced motion and low-power device detection.",
       dependencies |-> <<"motion", "tw-animate-css">>,
       registryDependencies |-> <<>>,
       inlineDependencies |-> <<>>,
       files |-> <<[path |-> "components/motion-provider.tsx", type |-> "registry:component"], [path |-> "hooks/use-reduced-motion.ts", type |-> "registry:hook"], [path |-> "hooks/use-low-power-device.ts", type |-> "registry:hook"], [path |-> "lib/motion.ts", type |-> "registry:lib"]>>,
       cssVars |-> FALSE,
       tailwind |-> FALSE],
      [name |-> "animations",
       type |-> "registry:lib",
       title |-> "Animations",
       description |-> "Motion system with spring presets, transitions, and variant factories.",
       dependencies |-> <<"motion", "tw-animate-css">>,
       registryDependencies |-> <<>>,
       inlineDependencies |-> <<>>,
       files |-> <<[path |-> "lib/animations.ts", type |-> "registry:lib"]>>,
       cssVars |-> FALSE,
       tailwind |-> FALSE],
      [name |-> "tokens",
       type |-> "registry:lib",
       title |-> "Design Tokens",
       description |-> "Centralized design tokens for colors, spacing, typography, shadows, and more.",
       dependencies |-> <<>>,
       registryDependencies |-> <<>>,
       inlineDependencies |-> <<>>,
       files |-> <<[path |-> "lib/tokens.ts", type |-> "registry:lib"]>>,
       cssVars |-> FALSE,
       tailwind |-> FALSE],
      [name |-> "icons",
       type |-> "registry:lib",
       title |-> "Animated Icons",
       description |-> "Animated icon components including loading spinners, morphing icons, and close buttons.",
       dependencies |-> <<"motion", "@phosphor-icons/react", "tw-animate-css">>,
       registryDependencies |-> <<"utils">>,
       inlineDependencies |-> <<"motion-provider">>,
       files |-> <<[path |-> "lib/icons.tsx", type |-> "registry:lib"]>>,
       cssVars |-> FALSE,
       tailwind |-> FALSE],
      [name |-> "use-click-outside",
       type |-> "registry:hook",
       title |-> "useClickOutside",
       description |-> "Hook to detect clicks outside a referenced element.",
       dependencies |-> <<>>,
       registryDependencies |-> <<>>,
       inlineDependencies |-> <<>>,
       files |-> <<[path |-> "hooks/use-click-outside.tsx", type |-> "registry:hook"]>>,
       cssVars |-> FALSE,
       tailwind |-> FALSE],
      [name |-> "use-stable-id",
       type |-> "registry:hook",
       title |-> "useStableId",
       description |-> "SSR-safe hook for generating stable unique IDs for accessibility attributes.",
       dependencies |-> <<>>,
       registryDependencies |-> <<>>,
       inlineDependencies |-> <<>>,
       files |-> <<[path |-> "hooks/use-stable-id.ts", type |-> "registry:hook"]>>,
       cssVars |-> FALSE,
       tailwind |-> FALSE],
      [name |-> "use-controllable-state",
       type |-> "registry:hook",
       title |-> "useControllableState",
       description |-> "Hook for handling controlled/uncontrolled state pattern in components.",
       dependencies |-> <<>>,
       registryDependencies |-> <<>>,
       inlineDependencies |-> <<>>,
       files |-> <<[path |-> "hooks/use-controllable-state.ts", type |-> "registry:hook"]>>,
       cssVars |-> FALSE,
       tailwind |-> FALSE],
      [name |-> "use-merged-refs",
       type |-> "registry:hook",
       title |-> "useMergedRefs",
       description |-> "Hook to merge multiple refs into a single callback ref.",
       dependencies |-> <<>>,
       registryDependencies |-> <<>>,
       inlineDependencies |-> <<>>,
       files |-> <<[path |-> "hooks/use-merged-refs.ts", type |-> "registry:hook"]>>,
       cssVars |-> FALSE,
       tailwind |-> FALSE],
      [name |-> "avatar",
       type |-> "registry:ui",
       title |-> "Avatar",
       description |-> "Composable avatar component with sizes, status indicators, and group stacking support.",
       dependencies |-> <<"@radix-ui/react-avatar", "class-variance-authority">>,
       registryDependencies |-> <<"utils">>,
       inlineDependencies |-> <<>>,
       files |-> <<[path |-> "components/ui/avatar.tsx", type |-> "registry:ui"]>>,
       cssVars |-> FALSE,
       tailwind |-> FALSE],
      [name |-> "pull-down",
       type |-> "registry:ui",
       title |-> "Pull Down Menu",
       description |-> "A pull down menu with morphing animations. The trigger morphs into the menu container with spring physics.",
       dependencies |-> <<"motion", "@phosphor-icons/react", "tw-animate-css">>,
       registryDependencies |-> <<"utils">>,
       inlineDependencies |-> <<"motion-provider">>,
       files |-> <<[path |-> "components/ui/pull-down.tsx", type |-> "registry:ui"]>>,
       cssVars |-> TRUE,
       tailwind |-> TRUE],
      [name |-> "input",
       type |-> "registry:ui",
       title |-> "Input",
       description |-> "A styled input component with focus states, validation support, and file input styling.",
       dependencies |-> <<>>,
       registryDependencies |-> <<"utils">>,
       inlineDependencies |-> <<>>,
       files |-> <<[path |-> "components/ui/input.tsx", type |-> "registry:ui"]>>,
       cssVars |-> FALSE,
       tailwind |-> FALSE],
      [name |-> "scroll-area",
       type |-> "registry:ui",
       title |-> "Scroll Area",
       description |-> "A scrollable area with custom scrollbars built on Radix UI ScrollArea.",
       dependencies |-> <<"@radix-ui/react-scroll-area">>,
       registryDependencies |-> <<"utils">>,
       inlineDependencies |-> <<>>,
       files |-> <<[path |-> "components/ui/scroll-area.tsx", type |-> "registry:ui"]>>,
       cssVars |-> FALSE,
       tailwind |-> FALSE],
      [name |-> "separator",
       type |-> "registry:ui",
       title |-> "Separator",
       description |-> "A visual separator for dividing content, supporting horizontal and vertical orientations.",
       dependencies |-> <<"@radix-ui/react-separator">>,
       registryDependencies |-> <<"utils">>,
       inlineDependencies |-> <<>>,
       files |-> <<[path |-> "components/ui/separator.tsx", type |-> "registry:ui"]>>,
       cssVars |-> FALSE,
       tailwind |-> FALSE],
      [name |-> "sheet",
       type |-> "registry:ui",
       title |-> "Sheet",
       description |-> "A slide-out panel component with drag-to-dismiss, multiple sides, and smooth animations.",
       dependencies |-> <<"@radix-ui/react-dialog", "class-variance-authority", "motion">>,
       registryDependencies |-> <<"utils">>,
       inlineDependencies |-> <<"motion-provider", "icons">>,
       files |-> <<[path |-> "components/ui/sheet.tsx", type |-> "registry:ui"]>>,
       cssVars |-> FALSE,
       tailwind |-> FALSE],
      [name |-> "skeleton",
       type |-> "registry:ui",
       title |-> "Skeleton",
       description |-> "A loading placeholder component with pulse animation for content loading states.",
       dependencies |-> <<>>,
       registryDependencies |-> <<"utils">>,
       inlineDependencies |-> <<>>,
       files |-> <<[path |-> "components/ui/skeleton.tsx", type |-> "registry:ui"]>>,
       cssVars |-> FALSE,
       tailwind |-> FALSE],
      [name |-> "slider",
       type |-> "registry:ui",
       title |-> "Slider",
       description |-> "A range slider component with single or multiple thumbs, built on Radix UI Slider.",
       dependencies |-> <<"@radix-ui/react-slider">>,
       registryDependencies |-> <<"utils">>,
       inlineDependencies |-> <<>>,
       files |-> <<[path |-> "components/ui/slider.tsx", type |-> "registry:ui"]>>,
       cssVars |-> FALSE,
       tailwind |-> FALSE],
      [name |-> "tooltip",
       type |-> "registry:ui",
       title |-> "Tooltip",
       description |-> "A tooltip component with smooth animations and configurable positioning.",
       dependencies |-> <<"@radix-ui/react-tooltip">>,
       registryDependencies |-> <<"utils">>,
       inlineDependencies |-> <<>>,
       files |-> <<[path |-> "components/ui/tooltip.tsx", type |-> "registry:ui"]>>,
       cssVars |-> FALSE,
       tailwind |-> FALSE],
      [name |-> "sidebar",
       type |-> "registry:ui",
       title |-> "Sidebar",
       description |-> "A responsive sidebar component with collapsible states, mobile sheet mode, and keyboard shortcuts.",
       dependencies |-> <<"@radix-ui/react-slot", "class-variance-authority", "@phosphor-icons/react">>,
       registryDependencies |-> <<"utils", "button", "input", "separator", "sheet", "skeleton", "tooltip">>,
       inlineDependencies |-> <<"use-mobile">>,
       files |-> <<[path |-> "components/ui/sidebar.tsx", type |-> "registry:ui"]>>,
       cssVars |-> FALSE,
       tailwind |-> FALSE],
      [name |-> "use-mobile",
       type |-> "registry:hook",
       title |-> "useMobile",
       description |-> "Hook to detect mobile viewport based on media query.",
       dependencies |-> <<>>,
       registryDependencies |-> <<>>,
       inlineDependencies |-> <<>>,
       files |-> <<[path |-> "hooks/use-mobile.ts", type |-> "registry:hook"]>>,
       cssVars |-> FALSE,
       tailwind |-> FALSE]
    >>

\* ------------------------------------------------------------------------
\* The hardcoded theme blocks of updateRegistryFile
\* ------------------------------------------------------------------------
LightTokens ==
    "radius" :> "0.75rem" @@
    "background" :> "oklch(1 0 0)" @@
    "foreground" :> "oklch(0.145 0 0)" @@
    "card" :> "oklch(1 0 0)" @@
    "card-foreground" :> "oklch(0.145 0 0)" @@
    "popover" :> "oklch(1 0 0)" @@
    "popover-foreground" :> "oklch(0.145 0 0)" @@
    "primary" :> "oklch(0.205 0 0)" @@
    "primary-foreground" :> "oklch(0.985 0 0)" @@
    "secondary" :> "oklch(0.97 0 0)" @@
    "secondary-foreground" :> "oklch(0.205 0 0)" @@
    "muted" :> "oklch(0.97 0 0)" @@
    "muted-foreground" :> "oklch(0.556 0 0)" @@
    "accent" :> "oklch(0.97 0 0)" @@
    "accent-foreground" :> "oklch(0.205 0 0)" @@
    "destructive" :> "oklch(0.577 0.245 27.325)" @@
    "destructive-foreground" :> "oklch(0.985 0 0)" @@
    "border" :> "oklch(0.922 0 0)" @@
    "input" :> "oklch(0.922 0 0)" @@
    "ring" :> "oklch(0.708 0 0)" @@
    "chart-1" :> "oklch(0.646 0.222 41.116)" @@
    "chart-2" :> "oklch(0.6 0.118 184.704)" @@
    "chart-3" :> "oklch(0.398 0.07 227.392)" @@
    "chart-4" :> "oklch(0.828 0.189 84.429)" @@
    "chart-5" :> "oklch(0.769 0.188 70.08)" @@
    "sidebar" :> "oklch(0.985 0 0)" @@
    "sidebar-foreground" :> "oklch(0.145 0 0)" @@
    "sidebar-primary" :> "oklch(0.205 0 0)" @@
    "sidebar-primary-foreground" :> "oklch(0.985 0 0)" @@
    "sidebar-accent" :> "oklch(0.97 0 0)" @@
    "sidebar-accent-foreground" :> "oklch(0.205 0 0)" @@
    "sidebar-border" :> "oklch(0.922 0 0)" @@
    "sidebar-ring" :> "oklch(0.708 0 0)" @@
    "shadow-xs" :> "0 1px 2px oklch(0 0 0 / 0.04)" @@
    "shadow-sm" :> "0 1px 3px oklch(0 0 0 / 0.06), 0 1px 2px oklch(0 0 0 / 0.04)" @@
    "shadow-md" :> "0 4px 6px oklch(0 0 0 / 0.05), 0 2px 4px oklch(0 0 0 / 0.04)" @@
    "shadow-lg" :> "0 10px 15px oklch(0 0 0 / 0.08), 0 4px 6px oklch(0 0 0 / 0.04)" @@
    "shadow-xl" :> "0 20px 25px oklch(0 0 0 / 0.1), 0 8px 10px oklch(0 0 0 / 0.05)" @@
    "shadow-2xl" :> "0 25px 50px oklch(0 0 0 / 0.15)"

DarkTokens ==
    "background" :> "oklch(0.21 0.006 285.885)" @@
    "foreground" :> "oklch(0.985 0 0)" @@
    "card" :> "oklch(0.205 0 0)" @@
    "card-foreground" :> "oklch(0.985 0 0)" @@
    "popover" :> "oklch(0.205 0 0)" @@
    "popover-foreground" :> "oklch(0.985 0 0)" @@
    "primary" :> "oklch(0.922 0 0)" @@
    "primary-foreground" :> "oklch(0.205 0 0)" @@
    "secondary" :> "oklch(0.269 0 0)" @@
    "secondary-foreground" :> "oklch(0.985 0 0)" @@
    "muted" :> "oklch(0.269 0 0)" @@
    "muted-foreground" :> "oklch(0.708 0 0)" @@
    "accent" :> "oklch(0.269 0 0)" @@
    "accent-foreground" :> "oklch(0.985 0 0)" @@
    "destructive" :> "oklch(0.704 0.191 22.216)" @@
    "destructive-foreground" :> "oklch(0.985 0 0)" @@
    "border" :> "oklch(1 0 0 / 10%)" @@
    "input" :> "oklch(1 0 0 / 15%)" @@
    "ring" :> "oklch(0.556 0 0)" @@
    "chart-1" :> "oklch(0.488 0.243 264.376)" @@
    "chart-2" :> "oklch(0.696 0.17 162.48)" @@
    "chart-3" :> "oklch(0.769 0.188 70.08)" @@
    "chart-4" :> "oklch(0.627 0.265 303.9)" @@
    "chart-5" :> "oklch(0.645 0.246 16.439)" @@
    "sidebar" :> "oklch(0.205 0 0)" @@
    "sidebar-foreground" :> "oklch(0.985 0 0)" @@
    "sidebar-primary" :> "oklch(0.488 0.243 264.376)" @@
    "sidebar-primary-foreground" :> "oklch(0.985 0 0)" @@
    "sidebar-accent" :> "oklch(0.269 0 0)" @@
    "sidebar-accent-foreground" :> "oklch(0.985 0 0)" @@
    "sidebar-border" :> "oklch(1 0 0 / 10%)" @@
    "sidebar-ring" :> "oklch(0.556 0 0)" @@
    "shadow-xs" :> "0 1px 2px oklch(0 0 0 / 0.1)" @@
    "shadow-sm" :> "0 1px 3px oklch(0 0 0 / 0.15), 0 1px 2px oklch(0 0 0 / 0.1)" @@
    "shadow-md" :> "0 4px 6px oklch(0 0 0 / 0.15), 0 2px 4px oklch(0 0 0 / 0.1)" @@
    "shadow-lg" :> "0 10px 15px oklch(0 0 0 / 0.2), 0 4px 6px oklch(0 0 0 / 0.1)" @@
    "shadow-xl" :> "0 20px 25px oklch(0 0 0 / 0.25), 0 8px 10px oklch(0 0 0 / 0.1)" @@
    "shadow-2xl" :> "0 25px 50px oklch(0 0 0 / 0.35)"

GlobalThemeTokens ==
    "blur-sm" :> "4px" @@
    "blur-md" :> "8px" @@
    "blur-lg" :> "16px" @@
    "blur-xl" :> "20px" @@
    "blur-2xl" :> "32px" @@
    "backdrop-saturate" :> "180%" @@
    "spring-snappy" :> "cubic-bezier(0.25, 0.1, 0.25, 1)" @@
    "spring-bouncy" :> "cubic-bezier(0.34, 1.56, 0.64, 1)" @@
    "spring-smooth" :> "cubic-bezier(0.33, 1, 0.68, 1)" @@
    "duration-instant" :> "0ms" @@
    "duration-fast" :> "100ms" @@
    "duration-normal" :> "200ms" @@
    "duration-slow" :> "300ms" @@
    "duration-slower" :> "500ms"

ThemeMapping ==
    "--color-background" :> "var(--background)" @@
    "--color-foreground" :> "var(--foreground)" @@
    "--color-card" :> "var(--card)" @@
    "--color-card-foreground" :> "var(--card-foreground)" @@
    "--color-popover" :> "var(--popover)" @@
    "--color-popover-foreground" :> "var(--popover-foreground)" @@
    "--color-primary" :> "var(--primary)" @@
    "--color-primary-foreground" :> "var(--primary-foreground)" @@
    "--color-secondary" :> "var(--secondary)" @@
    "--color-secondary-foreground" :> "var(--secondary-foreground)" @@
    "--color-muted" :> "var(--muted)" @@
    "--color-muted-foreground" :> "var(--muted-foreground)" @@
    "--color-accent" :> "var(--accent)" @@
    "--color-accent-foreground" :> "var(--accent-foreground)" @@
    "--color-destructive" :> "var(--destructive)" @@
    "--color-destructive-foreground" :> "var(--destructive-foreground)" @@
    "--color-border" :> "var(--border)" @@
    "--color-input" :> "var(--input)" @@
    "--color-ring" :> "var(--ring)" @@
    "--radius-sm" :> "calc(var(--radius) - 4px)" @@
    "--radius-md" :> "calc(var(--radius) - 2px)" @@
    "--radius-lg" :> "var(--radius)" @@
    "--radius-xl" :> "calc(var(--radius) + 4px)"


\* registryItem.tailwind (lines 465-490)
TailwindBlock ==
    [config |-> [theme |-> [extend |-> [fontFamily |-> [sans |->
        <<"var(--font-sans)", "Inter", "ui-sans-serif", "system-ui",
          "-apple-system", "BlinkMacSystemFont", "Segoe UI", "Roboto",
          "Helvetica Neue", "Arial", "Noto Sans", "sans-serif">>]]]]]

\* registryItem.css (lines 523-534)
BaseLayerCss ==
    "@layer base" :>
        ("*" :> ("border-color" :> "var(--border)" @@
                 "outline-color" :> "var(--ring)") @@
         "body" :> ("background-color" :> "var(--background)" @@
                    "color" :> "var(--foreground)"))

\* ------------------------------------------------------------------------
\* State
\* ------------------------------------------------------------------------
VARIABLES
    components,   \* the registry map, as Object.entries(components)
    disk,         \* project-relative path -> outcome of readFileSync
    unwritable,   \* output paths on which writeFileSync throws
    outputs,      \* output path -> document written in this run
    log,          \* console lines printed so far
    io,           \* file-system calls made so far, in order
    pc,           \* position in the script's main execution
    i,            \* index of the next entry of the forEach loop
    history,       \* one record per earlier invocation of the script
    scrollLockCount,  \* use-prevent-scroll.ts: module-level lock counter
    originalStyles,   \* use-prevent-scroll.ts: styles saved by the first lock
    document,         \* inline styles of <html> and <body>, and the page's
                      \* style sheet padding and scrollbar width
    instances,        \* the usePreventScroll call sites: props, ref, effect
    controlledValue,  \* use-controllable-state.ts: the `value` prop
    uncontrolledValue,\* the committed state of useState (line 89)
    stateQueue,       \* updates of setUncontrolledValue not yet rendered
    rendered,         \* what the setValue of the last render closes over
    onChangeRef,      \* whether onChangeRef.current is a callback
    onChangeCalls,    \* the arguments onChange was called with, in order
    issued,           \* the setter arguments issued since the last render
    setterCalls,      \* number of setter calls so far
    dialogs,          \* alert-dialog.tsx: each AlertDialogContent and what its effect saved
    overflowBefore,   \* body overflow when the first of the open dialogs opened
    activeElement,    \* document.activeElement
    trap,             \* use-focus-trap: props, previousActiveElementRef, timer, cleanup
    focusBefore,      \* the element that had focus when the trap was last activated
    getBattery,       \* navigator.getBattery: absent, resolves or rejects
    batteryManager,   \* use-low-power-device.ts: whether the cached manager is set
    batteryPromise,   \* the cached promise: null, pending or settled
    subscribers,      \* each subscribe callback: subscribed, and its then-callbacks not yet run
    listeners         \* the callbacks registered on the battery manager

RegistryVars ==
    <<components, disk, unwritable, outputs, log, io, pc, i, history>>

scrollVars == <<scrollLockCount, originalStyles, document, instances>>

controllableVars ==
    <<controlledValue, uncontrolledValue, stateQueue, rendered, onChangeRef,
      onChangeCalls, issued, setterCalls>>

dialogVars == <<dialogs, overflowBefore>>

focusVars == <<activeElement, trap, focusBefore>>

batteryVars == <<getBattery, batteryManager, batteryPromise, subscribers, listeners>>

hookVars == <<scrollVars, controllableVars, dialogVars, focusVars, batteryVars>>

ScrollFrame == <<RegistryVars, controllableVars, dialogVars, focusVars, batteryVars>>

ControllableFrame == <<RegistryVars, scrollVars, dialogVars, focusVars, batteryVars>>

FocusFrame == <<RegistryVars, scrollVars, controllableVars, dialogVars, batteryVars>>

DialogFrame == <<RegistryVars, scrollLockCount, originalStyles, instances, controllableVars, trap, focusBefore, batteryVars>>

BatteryFrame == <<RegistryVars, scrollVars, controllableVars, dialogVars, focusVars>>

vars == <<components, disk, unwritable, outputs, log, io, pc, i, history,
          scrollLockCount, originalStyles, document, instances,
          controlledValue, uncontrolledValue, stateQueue, rendered,
          onChangeRef, onChangeCalls, issued, setterCalls,
          dialogs, overflowBefore,
          activeElement, trap, focusBefore,
          getBattery, batteryManager, batteryPromise, subscribers, listeners>>

\* ------------------------------------------------------------------------
\* Map access
\* ------------------------------------------------------------------------
\* components[depName] is defined (truthy)
HasKey(comps, n) == \E k \in 1..Len(comps) : comps[k].name = n

\* components[depName]
Get(comps, n) == comps[CHOOSE k \in 1..Len(comps) : comps[k].name = n]

\* ------------------------------------------------------------------------
\* Paths
\* ------------------------------------------------------------------------
OutputPath(name) == "public/r/" \o name \o ".json"
RegistryPath == "registry.json"
PublicRegistryPath == "public/r/registry.json"

\* ------------------------------------------------------------------------
\* File system calls
\* ------------------------------------------------------------------------
NoError == [code |-> "", path |-> ""]

\* readFileSync(fullPath, "utf-8"): the text, or the error thrown
ReadFileSync(dsk, p) ==
    IF p \in DOMAIN dsk THEN dsk[p] ELSE [ok |-> FALSE, code |-> "ENOENT"]

\* variant: the text is quoted before JSON.stringify escapes it again
escapeContentQuoted(content) == "\"" \o content \o "\""

\* escapeContent(content)
escapeContent(content) == content

\* ------------------------------------------------------------------------
\* Dependency resolver (updateRegistryFile, lines 308-318)
\* ------------------------------------------------------------------------
\* variant: unshift instead of push
PushDepFront(acc, depName, comps) ==
    IF acc.threw THEN acc
    ELSE IF HasKey(comps, depName)
         THEN [acc EXCEPT !.files = Get(comps, depName).files \o @]
         ELSE acc

\* variant: also follows the dependency's own inlineDependencies
PushDepNested(acc, depName, comps) ==
    IF acc.threw THEN acc
    ELSE IF HasKey(comps, depName)
         THEN LET dep == Get(comps, depName)
                  inner == [j \in 1..Len(dep.inlineDependencies) |->
                               IF HasKey(comps, dep.inlineDependencies[j])
                               THEN Get(comps, dep.inlineDependencies[j]).files
                               ELSE <<>>]
              IN  [acc EXCEPT !.files = @ \o dep.files \o Concat(inner)]
         ELSE acc

\* variant: skips a file whose path is already collected
PushDepDedup(acc, depName, comps) ==
    IF acc.threw THEN acc
    ELSE IF HasKey(comps, depName)
         THEN [acc EXCEPT !.files =
                  @ \o SelectSeq(Get(comps, depName).files,
                                 LAMBDA f : \A j \in 1..Len(acc.files) :
                                               acc.files[j].path # f.path)]
         ELSE acc

\* variant: no guard, depConfig.files of undefined throws a TypeError
PushDepUnguarded(acc, depName, comps) ==
    IF acc.threw THEN acc
    ELSE IF HasKey(comps, depName)
         THEN [acc EXCEPT !.files = @ \o Get(comps, depName).files]
         ELSE [acc EXCEPT !.threw = TRUE]

\* One call of the forEach callback. acc.threw records an exception
\* escaping the callback; the guard on depConfig never raises one.
PushDep(acc, depName, comps) ==
    IF acc.threw THEN acc
    ELSE IF HasKey(comps, depName)
         THEN [acc EXCEPT !.files = @ \o Get(comps, depName).files]
         ELSE acc

\* variant: the iteration ends at the first name that is no key
RECURSIVE ForEachDepStopAtMissing(_, _, _)
ForEachDepStopAtMissing(acc, deps, comps) ==
    IF deps = <<>> THEN acc
    ELSE IF ~HasKey(comps, Head(deps)) THEN acc
         ELSE ForEachDepStopAtMissing(
                  [acc EXCEPT !.files = @ \o Get(comps, Head(deps)).files],
                  Tail(deps), comps)

RECURSIVE ForEachDep(_, _, _)
ForEachDep(acc, deps, comps) ==
    IF deps = <<>> THEN acc
    ELSE ForEachDep(PushDep(acc, Head(deps), comps), Tail(deps), comps)

\* variant: the inline dependencies are never expanded
AllFilesOwnOnly(config, comps) == [threw |-> FALSE, files |-> config.files]

\* variant: registryDependencies are expanded like inlineDependencies
AllFilesWithRegistryDeps(config, comps) ==
    ForEachDep([threw |-> FALSE, files |-> config.files],
               config.inlineDependencies \o config.registryDependencies, comps)

\* allFiles after line 318
AllFiles(config, comps) ==
    LET start == [threw |-> FALSE, files |-> config.files]
    IN  IF Len(config.inlineDependencies) > 0
        THEN ForEachDep(start, config.inlineDependencies, comps)
        ELSE start

\* ------------------------------------------------------------------------
\* File materializer (allFiles.map, lines 328-336)
\* ------------------------------------------------------------------------
\* index of the first file whose read throws, 0 when every read succeeds
FirstUnreadable(files, dsk) ==
    LET bad == {k \in 1..Len(files) : ~ReadFileSync(dsk, files[k].path).ok}
    IN  IF bad = {} THEN 0 ELSE CHOOSE k \in bad : \A j \in bad : k <= j

EmbedFiles(files, dsk) ==
    [k \in 1..Len(files) |->
        [path |-> files[k].path,
         content |-> escapeContent(ReadFileSync(dsk, files[k].path).text),
         type |-> files[k].type]]

\* the readFileSync calls made by the map, up to the first that throws
ReadCalls(files, dsk) ==
    LET f == FirstUnreadable(files, dsk)
        n == IF f = 0 THEN Len(files) ELSE f
    IN  [k \in 1..n |-> [op |-> "read", path |-> files[k].path]]

\* ------------------------------------------------------------------------
\* Manifest emitter (updateRegistryFile, lines 320-535)
\* ------------------------------------------------------------------------
\* lines 320-337
BaseItem(name, config, files, dsk) ==
    [schema |-> "https://ui.shadcn.com/schema/registry-item.json",
     name |-> name,
     type |-> config.type,
     title |-> config.title,
     description |-> config.description,
     dependencies |-> config.dependencies,
     registryDependencies |-> config.registryDependencies,
     files |-> EmbedFiles(files, dsk)]

\* variant: the dark block is a copy of the light block
WithCssVarsDarkCopiesLight(item, config) ==
    IF config.cssVars
    THEN item @@ [cssVars |-> [light |-> LightTokens,
                               dark |-> LightTokens,
                               theme |-> GlobalThemeTokens]]
    ELSE item

\* lines 340-462
WithCssVars(item, config) ==
    IF config.cssVars
    THEN item @@ [cssVars |-> [light |-> LightTokens,
                               dark |-> DarkTokens,
                               theme |-> GlobalThemeTokens]]
    ELSE item

\* lines 465-490
WithTailwind(item, config) ==
    IF config.tailwind THEN item @@ [tailwind |-> TailwindBlock] ELSE item

\* variant: the base-layer css block is not added
WithThemeNoCss(item, config) ==
    IF config.cssVars
    THEN [item EXCEPT !.cssVars.theme = ThemeMapping]
    ELSE item

\* lines 494-535
WithThemeAndCss(item, config) ==
    IF config.cssVars
    THEN [item EXCEPT !.cssVars.theme = ThemeMapping] @@ [css |-> BaseLayerCss]
    ELSE item

RegistryItem(name, config, files, dsk) ==
    WithThemeAndCss(
        WithTailwind(
            WithCssVars(BaseItem(name, config, files, dsk), config),
            config),
        config)

\* ------------------------------------------------------------------------
\* Index builder (updateMainRegistry, lines 542-559)
\* ------------------------------------------------------------------------
\* variant: the summary lists the resolved files, inline ones included
IndexItemsWithInline(comps) ==
    [k \in 1..Len(comps) |->
        [name |-> comps[k].name,
         type |-> comps[k].type,
         title |-> comps[k].title,
         description |-> comps[k].description,
         dependencies |-> comps[k].dependencies,
         registryDependencies |-> comps[k].registryDependencies,
         files |-> [j \in 1..Len(AllFiles(comps[k], comps).files) |->
                       [path |-> AllFiles(comps[k], comps).files[j].path,
                        type |-> AllFiles(comps[k], comps).files[j].type]]]]

\* variant: only the components whose manifest exists are listed
IndexItemsBuiltOnly(comps) ==
    SelectSeq([k \in 1..Len(comps) |->
                  [name |-> comps[k].name,
                   type |-> comps[k].type,
                   title |-> comps[k].title,
                   description |-> comps[k].description,
                   dependencies |-> comps[k].dependencies,
                   registryDependencies |-> comps[k].registryDependencies,
                   files |-> [j \in 1..Len(comps[k].files) |->
                                 [path |-> comps[k].files[j].path,
                                  type |-> comps[k].files[j].type]]]],
              LAMBDA item : OutputPath(item.name) \in DOMAIN outputs)

IndexItems(comps) ==
    [k \in 1..Len(comps) |->
        [name |-> comps[k].name,
         type |-> comps[k].type,
         title |-> comps[k].title,
         description |-> comps[k].description,
         dependencies |-> comps[k].dependencies,
         registryDependencies |-> comps[k].registryDependencies,
         files |-> [j \in 1..Len(comps[k].files) |->
                       [path |-> comps[k].files[j].path,
                        type |-> comps[k].files[j].type]]]]

Registry(comps) ==
    [schema |-> "https://ui.shadcn.com/schema/registry.json",
     name |-> "edbn-ui",
     version |-> "0.2.0",
     homepage |-> "https://ui.edbn.me",
     items |-> IndexItems(comps)]

\* ------------------------------------------------------------------------
\* Console lines
\* ------------------------------------------------------------------------
Line(kind, name, err) == [line |-> kind, name |-> name, error |-> err]

\* the error thrown by updateRegistryFile before it writes, if any
ThrownBeforeWrite(config, comps, dsk) ==
    LET r == AllFiles(config, comps)
        f == FirstUnreadable(r.files, dsk)
    IN  IF r.threw THEN [code |-> "TypeError", path |-> ""]
        ELSE IF f # 0
             THEN [code |-> ReadFileSync(dsk, r.files[f].path).code,
                   path |-> r.files[f].path]
             ELSE NoError

\* ------------------------------------------------------------------------
\* Main execution (lines 571-589)
\* ------------------------------------------------------------------------
\* line 571
Start ==
    /\ pc = "start"
    /\ log' = Append(log, Line("updating", "", NoError))
    /\ pc' = IF Len(components) = 0 THEN "index" ELSE "loop"
    /\ UNCHANGED <<hookVars, components, disk, unwritable, outputs, io, i, history>>

Advance ==
    /\ i' = i + 1
    /\ pc' = IF i = Len(components) THEN "index" ELSE "loop"

\* variant: one try/catch around the whole forEach, a failure ends the loop
ReadThrowsLeavesLoop(entry) ==
    LET r == AllFiles(entry, components)
        err == ThrownBeforeWrite(entry, components, disk)
    IN  /\ err # NoError
        /\ io' = io \o (IF r.threw THEN <<>> ELSE ReadCalls(r.files, disk))
        /\ log' = Append(log, Line("failed", entry.name, err))
        /\ pc' = "index"
        /\ UNCHANGED <<hookVars, disk, unwritable, outputs, i, history>>

\* variant: the files read before the failure are written as a manifest
ReadThrowsWritesPartial(entry) ==
    LET r == AllFiles(entry, components)
        err == ThrownBeforeWrite(entry, components, disk)
        f == FirstUnreadable(r.files, disk)
        out == OutputPath(entry.name)
    IN  /\ err # NoError
        /\ io' = io \o (IF r.threw THEN <<>> ELSE ReadCalls(r.files, disk))
        /\ outputs' = IF r.threw THEN outputs
                      ELSE (out :> RegistryItem(entry.name, entry,
                                                SubSeq(r.files, 1, f - 1), disk))
                               @@ outputs
        /\ log' = Append(log, Line("failed", entry.name, err))
        /\ Advance
        /\ UNCHANGED <<hookVars, disk, unwritable, history>>

\* updateRegistryFile throws while resolving or reading; the catch of
\* the loop body logs the failure
ReadThrows(entry) ==
    LET r == AllFiles(entry, components)
        err == ThrownBeforeWrite(entry, components, disk)
    IN  /\ err # NoError
        /\ io' = io \o (IF r.threw THEN <<>> ELSE ReadCalls(r.files, disk))
        /\ log' = Append(log, Line("failed", entry.name, err))
        /\ Advance
        /\ UNCHANGED <<hookVars, disk, unwritable, outputs, history>>

\* variant: the write is outside the try block, the exception ends the run
WriteThrowsUncaught(entry) ==
    LET r == AllFiles(entry, components)
        err == ThrownBeforeWrite(entry, components, disk)
        out == OutputPath(entry.name)
    IN  /\ err = NoError
        /\ out \in unwritable
        /\ io' = io \o ReadCalls(r.files, disk)
                    \o <<[op |-> "write", path |-> out]>>
        /\ pc' = "done"
        /\ UNCHANGED <<hookVars, disk, unwritable, outputs, log, i, history>>

\* every read succeeds and writeFileSync throws; the same catch logs it
WriteThrows(entry) ==
    LET r == AllFiles(entry, components)
        err == ThrownBeforeWrite(entry, components, disk)
        out == OutputPath(entry.name)
    IN  /\ err = NoError
        /\ out \in unwritable
        /\ io' = io \o ReadCalls(r.files, disk)
                    \o <<[op |-> "write", path |-> out]>>
        /\ log' = Append(log, Line("failed", entry.name,
                                   [code |-> "EACCES", path |-> out]))
        /\ Advance
        /\ UNCHANGED <<hookVars, disk, unwritable, outputs, history>>

\* variant: an existing manifest is read back and the files are appended
ReturnsMerging(entry) ==
    LET r == AllFiles(entry, components)
        err == ThrownBeforeWrite(entry, components, disk)
        out == OutputPath(entry.name)
        item == RegistryItem(entry.name, entry, r.files, disk)
    IN  /\ err = NoError
        /\ out \notin unwritable
        /\ io' = io \o ReadCalls(r.files, disk)
                    \o <<[op |-> "write", path |-> out]>>
        /\ outputs' = (out :> IF out \in DOMAIN outputs
                              THEN [item EXCEPT !.files = outputs[out].files \o @]
                              ELSE item) @@ outputs
        /\ log' = Append(log, Line("updated", entry.name, NoError))
        /\ Advance
        /\ UNCHANGED <<hookVars, disk, unwritable, history>>

\* variant: a manifest that already exists is left as it is
ReturnsKeepsExisting(entry) ==
    LET r == AllFiles(entry, components)
        err == ThrownBeforeWrite(entry, components, disk)
        out == OutputPath(entry.name)
    IN  /\ err = NoError
        /\ out \notin unwritable
        /\ io' = io \o ReadCalls(r.files, disk)
                    \o <<[op |-> "write", path |-> out]>>
        /\ outputs' = outputs @@
                          (out :> RegistryItem(entry.name, entry, r.files, disk))
        /\ log' = Append(log, Line("updated", entry.name, NoError))
        /\ Advance
        /\ UNCHANGED <<hookVars, disk, unwritable, history>>

\* variant: the manifest is written before the files are read
ReturnsWriteFirst(entry) ==
    LET r == AllFiles(entry, components)
        err == ThrownBeforeWrite(entry, components, disk)
        out == OutputPath(entry.name)
    IN  /\ err = NoError
        /\ out \notin unwritable
        /\ io' = io \o <<[op |-> "write", path |-> out]>>
                    \o ReadCalls(r.files, disk)
        /\ outputs' = (out :> RegistryItem(entry.name, entry, r.files, disk))
                          @@ outputs
        /\ log' = Append(log, Line("updated", entry.name, NoError))
        /\ Advance
        /\ UNCHANGED <<hookVars, disk, unwritable, history>>

\* updateRegistryFile returns normally
Returns(entry) ==
    LET r == AllFiles(entry, components)
        err == ThrownBeforeWrite(entry, components, disk)
        out == OutputPath(entry.name)
    IN  /\ err = NoError
        /\ out \notin unwritable
        /\ io' = io \o ReadCalls(r.files, disk)
                    \o <<[op |-> "write", path |-> out]>>
        /\ outputs' = (out :> RegistryItem(entry.name, entry, r.files, disk))
                          @@ outputs
        /\ log' = Append(log, Line("updated", entry.name, NoError))
        /\ Advance
        /\ UNCHANGED <<hookVars, disk, unwritable, history>>

\* variant: allFiles is config.files itself, so push grows the map entry
MapAfterResolveAliased(comps, k) ==
    [comps EXCEPT ![k].files = AllFiles(comps[k], comps).files]

\* the map after updateRegistryFile has resolved entry k: allFiles is a
\* spread copy of config.files (line 308) and push only grows the copy
MapAfterResolve(comps, k) ==
    comps

\* one iteration of Object.entries(components).forEach (lines 574-580)
LoopBody ==
    /\ pc = "loop"
    /\ i <= Len(components)
    /\ components' = MapAfterResolve(components, i)
    /\ \/ ReadThrows(components[i])
       \/ WriteThrows(components[i])
       \/ Returns(components[i])

\* updateMainRegistry: the first writeFileSync throws
IndexFirstWriteThrows ==
    /\ RegistryPath \in unwritable
    /\ io' = Append(io, [op |-> "write", path |-> RegistryPath])
    /\ log' = Append(log, Line("registry-failed", "",
                               [code |-> "EACCES", path |-> RegistryPath]))
    /\ UNCHANGED outputs

\* updateMainRegistry: the second writeFileSync throws
IndexSecondWriteThrows ==
    /\ RegistryPath \notin unwritable
    /\ PublicRegistryPath \in unwritable
    /\ io' = io \o <<[op |-> "write", path |-> RegistryPath],
                     [op |-> "write", path |-> PublicRegistryPath]>>
    /\ outputs' = (RegistryPath :> Registry(components)) @@ outputs
    /\ log' = log \o <<Line("registry", "", NoError),
                       Line("registry-failed", "",
                            [code |-> "EACCES", path |-> PublicRegistryPath])>>

\* variant: the public copy is built from a second header literal that
\* still carries the previous version
IndexReturnsStaleCopy ==
    /\ RegistryPath \notin unwritable
    /\ PublicRegistryPath \notin unwritable
    /\ io' = io \o <<[op |-> "write", path |-> RegistryPath],
                     [op |-> "write", path |-> PublicRegistryPath]>>
    /\ outputs' = (RegistryPath :> Registry(components)) @@
                  (PublicRegistryPath :>
                      [Registry(components) EXCEPT !.version = "0.1.0"]) @@
                  outputs
    /\ log' = log \o <<Line("registry", "", NoError),
                       Line("public-registry", "", NoError)>>

\* updateMainRegistry returns normally
IndexReturns ==
    /\ RegistryPath \notin unwritable
    /\ PublicRegistryPath \notin unwritable
    /\ io' = io \o <<[op |-> "write", path |-> RegistryPath],
                     [op |-> "write", path |-> PublicRegistryPath]>>
    /\ outputs' = (RegistryPath :> Registry(components)) @@
                  (PublicRegistryPath :> Registry(components)) @@ outputs
    /\ log' = log \o <<Line("registry", "", NoError),
                       Line("public-registry", "", NoError)>>

\* lines 583-587
UpdateMainRegistry ==
    /\ pc = "index"
    /\ \/ IndexFirstWriteThrows
       \/ IndexSecondWriteThrows
       \/ IndexReturns
    /\ pc' = "complete"
    /\ UNCHANGED <<hookVars, components, disk, unwritable, i, history>>

\* line 589
Complete ==
    /\ pc = "complete"
    /\ log' = Append(log, Line("complete", "", NoError))
    /\ pc' = "done"
    /\ UNCHANGED <<hookVars, components, disk, unwritable, outputs, io, i, history>>

Next == Start \/ LoopBody \/ UpdateMainRegistry \/ Complete

\* ------------------------------------------------------------------------
\* Enumerated inputs: small registry maps, disks and write failures
\* ------------------------------------------------------------------------
Paths == {"a.tsx", "h.ts", "x.ts"}

FileOf(p) ==
    [path |-> p,
     type |-> IF p = "a.tsx" THEN "registry:ui"
              ELSE IF p = "h.ts" THEN "registry:hook" ELSE "registry:lib"]

\* the files the first component may declare as its own: one of its own
\* and one it shares with the component it may depend on
OwnPaths == {"a.tsx", "h.ts"}

FileEntries == {FileOf(p) : p \in OwnPaths}

\* "ghost" is a key of no map
DepNames == {"helper", "extra", "ghost"}

Config(name, type, npm, files, deps, css) ==
    [name |-> name,
     type |-> type,
     title |-> name,
     description |-> name \o " component",
     dependencies |-> npm,
     registryDependencies |-> IF type = "registry:ui" THEN <<"utils">> ELSE <<>>,
     inlineDependencies |-> deps,
     files |-> files,
     cssVars |-> css,
     tailwind |-> css]

SmallRegistries ==
    {<<Config("widget", "registry:ui", <<"motion">>, wf, wd, TRUE),
       Config("helper", "registry:hook", <<>>, hf, hd, FALSE),
       Config("extra", "registry:lib", <<"tw-animate-css">>,
              <<FileOf("x.ts")>>, <<>>, FALSE)>> :
        wf \in SeqsUpTo(FileEntries, 0, MaxFiles),
        wd \in SeqsUpTo(DepNames, 0, MaxDeps),
        hf \in {<<FileOf("h.ts")>>, <<FileOf("h.ts"), FileOf("a.tsx")>>},
        hd \in {<<>>, <<"extra">>}}

SourceText(p) == "source of " \o p

\* every file readable, or exactly one of them missing
Disks(paths) ==
    {[p \in paths |-> IF p = gone THEN [ok |-> FALSE, code |-> "ENOENT"]
                      ELSE [ok |-> TRUE, text |-> SourceText(p)]] :
        gone \in paths \cup {"(none)"}}

ManifestPaths(comps) == {OutputPath(comps[k].name) : k \in 1..Len(comps)}

\* nothing fails; one manifest path is unwritable; the public output
\* directory is missing; the project root is unwritable
WriteFailures(comps) ==
    {{}, {OutputPath(comps[1].name)},
     ManifestPaths(comps) \cup {PublicRegistryPath},
     {RegistryPath}}

FilePathsOf(comps) ==
    UNION {{comps[k].files[j].path : j \in 1..Len(comps[k].files)} :
              k \in 1..Len(comps)}

\* ------------------------------------------------------------------------
\* hooks/use-prevent-scroll.ts
\* ------------------------------------------------------------------------
Instances == 1..MaxInstances

\* originalStyles = null
Null == [null |-> TRUE]

Digit(d) ==
    CASE d = 0 -> "0" [] d = 1 -> "1" [] d = 2 -> "2" [] d = 3 -> "3"
      [] d = 4 -> "4" [] d = 5 -> "5" [] d = 6 -> "6" [] d = 7 -> "7"
      [] d = 8 -> "8" [] d = 9 -> "9"

RECURSIVE NumberToString(_)
NumberToString(n) ==
    IF n < 10 THEN Digit(n)
    ELSE NumberToString(n \div 10) \o Digit(n % 10)

\* `${n}px`
Px(n) == NumberToString(n) \o "px"

\* parseInt(s, 10) || 0 for the style values that occur: the leading
\* integer of a pixel length, 0 for the empty string
ParseIntOrZero(s) ==
    IF \E n \in 0..MaxPx : Px(n) = s
    THEN CHOOSE n \in 0..MaxPx : Px(n) = s
    ELSE 0

\* getComputedStyle(document.body).paddingRight: the inline declaration
\* wins over the style sheet
ComputedPaddingRight(doc) ==
    IF doc.bodyPaddingRight # "" THEN doc.bodyPaddingRight
    ELSE Px(doc.sheetPaddingRight)

\* getScrollbarWidth(): offsetWidth difference of a scrolling probe element
getScrollbarWidth(doc) == doc.scrollbar

\* the module-level state and the page, as one value
Globals ==
    [scrollLockCount |-> scrollLockCount,
     originalStyles |-> originalStyles,
     document |-> document]

\* variant: every lock saves the current styles again
lockScrollSavesEveryTime(g, reserveScrollBarGap) ==
    LET count == g.scrollLockCount + 1
        doc == g.document
        scrollbarWidth ==
            IF reserveScrollBarGap THEN getScrollbarWidth(doc) ELSE 0
        saved == [bodyOverflow |-> doc.bodyOverflow,
                  bodyPaddingRight |-> doc.bodyPaddingRight,
                  htmlOverflow |-> doc.htmlOverflow,
                  scrollbarWidth |-> scrollbarWidth]
        locked == [doc EXCEPT !.scrollbarWidthProperty = Px(scrollbarWidth),
                              !.htmlOverflow = "hidden",
                              !.bodyOverflow = "hidden"]
        currentPadding == ParseIntOrZero(ComputedPaddingRight(locked))
    IN  [scrollLockCount |-> count,
         originalStyles |-> saved,
         document |->
             IF scrollbarWidth > 0
             THEN [locked EXCEPT !.bodyPaddingRight =
                                      Px(currentPadding + scrollbarWidth)]
             ELSE locked]

lockScroll(g, reserveScrollBarGap) ==
    LET count == g.scrollLockCount + 1
        doc == g.document
        scrollbarWidth ==
            IF reserveScrollBarGap THEN getScrollbarWidth(doc) ELSE 0
        saved == [bodyOverflow |-> doc.bodyOverflow,
                  bodyPaddingRight |-> doc.bodyPaddingRight,
                  htmlOverflow |-> doc.htmlOverflow,
                  scrollbarWidth |-> scrollbarWidth]
        locked == [doc EXCEPT !.scrollbarWidthProperty = Px(scrollbarWidth),
                              !.htmlOverflow = "hidden",
                              !.bodyOverflow = "hidden"]
        currentPadding == ParseIntOrZero(ComputedPaddingRight(locked))
    IN  IF count > 1
        THEN [g EXCEPT !.scrollLockCount = count]
        ELSE [scrollLockCount |-> count,
              originalStyles |-> saved,
              document |->
                  IF scrollbarWidth > 0
                  THEN [locked EXCEPT !.bodyPaddingRight =
                                           Px(currentPadding + scrollbarWidth)]
                  ELSE locked]

\* variant: every unlock restores the saved styles
unlockScrollRestoresEveryTime(g) ==
    LET count == g.scrollLockCount - 1
        saved == g.originalStyles
    IN  IF saved = Null
        THEN [g EXCEPT !.scrollLockCount = count]
        ELSE [scrollLockCount |-> count,
              originalStyles |-> IF count > 0 THEN saved ELSE Null,
              document |->
                  [g.document EXCEPT !.htmlOverflow = saved.htmlOverflow,
                                     !.bodyOverflow = saved.bodyOverflow,
                                     !.bodyPaddingRight = saved.bodyPaddingRight,
                                     !.scrollbarWidthProperty = ""]]

unlockScroll(g) ==
    LET count == g.scrollLockCount - 1
        saved == g.originalStyles
    IN  IF count > 0 \/ saved = Null
        THEN [g EXCEPT !.scrollLockCount = count]
        ELSE [scrollLockCount |-> count,
              originalStyles |-> Null,
              document |->
                  [g.document EXCEPT !.htmlOverflow = saved.htmlOverflow,
                                     !.bodyOverflow = saved.bodyOverflow,
                                     !.bodyPaddingRight = saved.bodyPaddingRight,
                                     !.scrollbarWidthProperty = ""]]

\* a call site that is not rendered
Unmounted ==
    [mounted |-> FALSE, isLocked |-> FALSE, reserveScrollBarGap |-> TRUE,
     wasLockedRef |-> FALSE, effect |-> "none"]

SetGlobals(g) ==
    /\ scrollLockCount' = g.scrollLockCount
    /\ originalStyles' = g.originalStyles
    /\ document' = g.document

\* variant: the cleanup unlocks without looking at the ref
CleanupUnguarded(g, inst) ==
    [globals |-> unlockScroll(g),
     instance |-> [inst EXCEPT !.wasLockedRef = FALSE]]

\* the function returned by the effect (lines 126-131)
Cleanup(g, inst) ==
    IF inst.wasLockedRef
    THEN [globals |-> unlockScroll(g),
          instance |-> [inst EXCEPT !.wasLockedRef = FALSE]]
    ELSE [globals |-> g, instance |-> inst]

\* the body of the effect (lines 121-124)
Effect(g, inst) ==
    IF inst.isLocked /\ ~inst.wasLockedRef
    THEN [globals |-> lockScroll(g, inst.reserveScrollBarGap),
          instance |-> [inst EXCEPT !.wasLockedRef = TRUE]]
    ELSE [globals |-> g, instance |-> inst]

\* first render of a call site: useRef(false), the effect is scheduled
Mount(n, isLocked, reserveScrollBarGap) ==
    /\ ~instances[n].mounted
    /\ instances' = [instances EXCEPT ![n] =
                         [mounted |-> TRUE, isLocked |-> isLocked,
                          reserveScrollBarGap |-> reserveScrollBarGap,
                          wasLockedRef |-> FALSE, effect |-> "pending"]]
    /\ UNCHANGED <<scrollLockCount, originalStyles, document>>

\* React runs the scheduled effect
RunEffect(n) ==
    /\ instances[n].mounted
    /\ instances[n].effect = "pending"
    /\ LET r == Effect(Globals, instances[n])
       IN  /\ SetGlobals(r.globals)
           /\ instances' = [instances EXCEPT ![n] =
                                [r.instance EXCEPT !.effect = "none"]]

\* a render with a changed dependency: React runs the cleanup of the
\* previous effect and schedules the effect again
Rerender(n, isLocked, reserveScrollBarGap) ==
    /\ instances[n].mounted
    /\ instances[n].effect = "none"
    /\ <<isLocked, reserveScrollBarGap>> #
           <<instances[n].isLocked, instances[n].reserveScrollBarGap>>
    /\ LET r == Cleanup(Globals, instances[n])
       IN  /\ SetGlobals(r.globals)
           /\ instances' = [instances EXCEPT ![n] =
                                [r.instance EXCEPT
                                     !.isLocked = isLocked,
                                     !.reserveScrollBarGap = reserveScrollBarGap,
                                     !.effect = "pending"]]

\* the call site leaves the tree: React runs the cleanup
Unmount(n) ==
    /\ instances[n].mounted
    /\ instances[n].effect = "none"
    /\ LET r == Cleanup(Globals, instances[n])
       IN  /\ SetGlobals(r.globals)
           /\ instances' = [instances EXCEPT ![n] = Unmounted]

MountAny ==
    /\ \E n \in Instances : \E isLocked \in BOOLEAN :
           \E reserveScrollBarGap \in BOOLEAN :
               Mount(n, isLocked, reserveScrollBarGap)
    /\ UNCHANGED ScrollFrame

RunEffectAny ==
    /\ \E n \in Instances : RunEffect(n)
    /\ UNCHANGED ScrollFrame

RerenderAny ==
    /\ \E n \in Instances : \E isLocked \in BOOLEAN :
           \E reserveScrollBarGap \in BOOLEAN :
               Rerender(n, isLocked, reserveScrollBarGap)
    /\ UNCHANGED ScrollFrame

UnmountAny ==
    /\ \E n \in Instances : Unmount(n)
    /\ UNCHANGED ScrollFrame

NextScroll == MountAny \/ RunEffectAny \/ RerenderAny \/ UnmountAny

\* the pages the hook may find: inline styles of <html> and <body>, the
\* style sheet's body padding and the width of the scrollbar
Documents ==
    {[htmlOverflow |-> ho, bodyOverflow |-> bo, bodyPaddingRight |-> pr,
      scrollbarWidthProperty |-> "", sheetPaddingRight |-> sp,
      scrollbar |-> sw] :
        ho \in {"", "scroll"}, bo \in {"", "auto"}, pr \in {"", "8px"},
        sp \in {0, 4}, sw \in {0, 15}}

\* a page without inline styles
PlainDocument ==
    [htmlOverflow |-> "", bodyOverflow |-> "", bodyPaddingRight |-> "",
     scrollbarWidthProperty |-> "", sheetPaddingRight |-> 0,
     scrollbar |-> 15]

\* no call site is rendered and nothing is locked
ScrollIdle ==
    /\ scrollLockCount = 0
    /\ originalStyles = Null
    /\ instances = [n \in Instances |-> Unmounted]

\* ------------------------------------------------------------------------
\* hooks/use-controllable-state.ts (useControllableBoolean call site)
\* ------------------------------------------------------------------------
\* the `value` prop: <<>> is undefined, <<v>> is the controlled value v
Undefined == <<>>

\* the argument the call site's helpers hand to setIsOpen (lines 165-167)
Updaters == {"open", "close", "toggle"}

\* SetStateAction resolved against a previous value (lines 108-111)
Resolve(nextValue, prev) ==
    CASE nextValue = "open" -> TRUE
      [] nextValue = "close" -> FALSE
      [] nextValue = "toggle" -> ~prev

\* onChangeRef.current?.(resolvedValue) (line 119)
Notify(calls, ref, resolvedValue) ==
    IF ref THEN Append(calls, resolvedValue) ELSE calls

\* setUncontrolledValue(resolvedValue) (line 115): the queued update is
\* the resolved value, not the updater
Enqueue(queue, resolvedValue) ==
    Append(queue, IF resolvedValue THEN "open" ELSE "close")

\* React's processing of the update queue of useState at the next render
RECURSIVE Reduce(_, _)
Reduce(queue, state) ==
    IF queue = <<>> THEN state
    ELSE Reduce(Tail(queue), Resolve(Head(queue), state))

\* setValue of the last committed render is called (lines 107-120)
SetValue(nextValue) ==
    /\ setterCalls < MaxSetterCalls
    /\ setterCalls' = setterCalls + 1
    /\ LET resolvedValue == Resolve(nextValue, rendered.value)
       IN  /\ stateQueue' = IF rendered.isControlled THEN stateQueue
                            ELSE Enqueue(stateQueue, resolvedValue)
           /\ onChangeCalls' = Notify(onChangeCalls, onChangeRef,
                                      resolvedValue)
    /\ issued' = Append(issued, nextValue)
    /\ UNCHANGED <<controlledValue, uncontrolledValue, rendered, onChangeRef>>

\* the component renders again with the given `value` prop and commits:
\* useState returns the reduced state, setValue closes over the new value
Render(prop) ==
    /\ (prop = Undefined) <=> (controlledValue = Undefined)
    /\ stateQueue # <<>> \/ prop # controlledValue
    /\ controlledValue' = prop
    /\ uncontrolledValue' = Reduce(stateQueue, uncontrolledValue)
    /\ stateQueue' = <<>>
    /\ rendered' = [isControlled |-> prop # Undefined,
                    value |-> IF prop # Undefined THEN prop[1]
                              ELSE uncontrolledValue']
    /\ issued' = <<>>
    /\ UNCHANGED <<onChangeCalls, onChangeRef, setterCalls>>

SetValueAny ==
    /\ \E nextValue \in Updaters : SetValue(nextValue)
    /\ UNCHANGED ControllableFrame

RenderAny ==
    /\ \E prop \in {Undefined, <<TRUE>>, <<FALSE>>} : Render(prop)
    /\ UNCHANGED ControllableFrame

NextControllable == SetValueAny \/ RenderAny

\* first render of the call site with the given props
Mounted(prop, defaultValue, hasOnChange) ==
    /\ controlledValue = prop
    /\ uncontrolledValue = defaultValue
    /\ stateQueue = <<>>
    /\ rendered = [isControlled |-> prop # Undefined,
                   value |-> IF prop # Undefined THEN prop[1] ELSE defaultValue]
    /\ onChangeRef = hasOnChange
    /\ onChangeCalls = <<>>
    /\ issued = <<>>
    /\ setterCalls = 0

\* an uncontrolled, closed call site nobody calls
ControllableIdle == Mounted(Undefined, FALSE, FALSE)

\* ------------------------------------------------------------------------
\* hooks/use-focus-trap (useFocusTrap)
\* ------------------------------------------------------------------------
\* the elements focus can be on: the page body, the control that opens
\* the overlay, another control of the page, an element of the container
Elements == {"body", "trigger", "other", "inside"}

\* previousActiveElementRef.current = null
NoElement == "null"

\* a trap that is not rendered
NoTrap ==
    [mounted |-> FALSE, isActive |-> FALSE, autoFocus |-> TRUE,
     restoreFocus |-> TRUE, previousActiveElementRef |-> NoElement,
     timer |-> FALSE, restoreCleanup |-> FALSE]

\* the cleanups of the effects whose dependencies changed, run before the
\* effects: cancelAnimationFrame(timer) (line 156) and the function the
\* restoration effect returned (lines 170-178), if it returned one
TrapCleanups(t, focused) ==
    [trap |-> [t EXCEPT !.timer = FALSE, !.restoreCleanup = FALSE],
     focused |-> IF /\ t.restoreCleanup
                    /\ t.previousActiveElementRef # NoElement
                    /\ t.previousActiveElementRef \in Elements
                 THEN t.previousActiveElementRef
                 ELSE focused]

\* the effects, run with the current props: initial focus (lines 123-157)
\* and focus restoration (lines 167-169)
TrapEffects(t, focused) ==
    LET starts == t.isActive /\ t.autoFocus
    IN  [t EXCEPT !.previousActiveElementRef =
                      IF starts /\ t.restoreFocus THEN focused ELSE @,
                  !.timer = starts,
                  !.restoreCleanup = ~t.isActive /\ t.restoreFocus]

\* the component using the hook is rendered for the first time
MountTrap(isActive, autoFocus, restoreFocus) ==
    /\ ~trap.mounted
    /\ trap' = TrapEffects([NoTrap EXCEPT !.mounted = TRUE,
                                          !.isActive = isActive,
                                          !.autoFocus = autoFocus,
                                          !.restoreFocus = restoreFocus],
                           activeElement)
    /\ focusBefore' = IF isActive THEN activeElement ELSE focusBefore
    /\ UNCHANGED activeElement

\* isActive changes: React runs the cleanups, then the effects
SetActive(isActive) ==
    /\ trap.mounted
    /\ trap.isActive # isActive
    /\ LET c == TrapCleanups(trap, activeElement)
       IN  /\ activeElement' = c.focused
           /\ trap' = TrapEffects([c.trap EXCEPT !.isActive = isActive],
                                  c.focused)
    /\ focusBefore' = IF isActive THEN activeElement ELSE focusBefore

\* the callback of requestAnimationFrame (lines 134-154): an element of
\* the container, or the container itself, gets focus
TrapAnimationFrame ==
    /\ trap.mounted
    /\ trap.timer
    /\ activeElement' = "inside"
    /\ trap' = [trap EXCEPT !.timer = FALSE]
    /\ UNCHANGED focusBefore

\* the user moves focus on the page while no trap is active
FocusMoves(e) ==
    /\ ~(trap.mounted /\ trap.isActive)
    /\ e # activeElement
    /\ activeElement' = e
    /\ UNCHANGED <<trap, focusBefore>>

\* the component leaves the tree: every cleanup runs
UnmountTrap ==
    /\ trap.mounted
    /\ activeElement' = TrapCleanups(trap, activeElement).focused
    /\ trap' = NoTrap
    /\ UNCHANGED focusBefore

MountTrapAny ==
    /\ \E isActive \in BOOLEAN : \E autoFocus \in BOOLEAN :
           \E restoreFocus \in BOOLEAN :
               MountTrap(isActive, autoFocus, restoreFocus)
    /\ UNCHANGED FocusFrame

SetActiveAny ==
    /\ \E isActive \in BOOLEAN : SetActive(isActive)
    /\ UNCHANGED FocusFrame

TrapAnimationFrameAny ==
    /\ TrapAnimationFrame
    /\ UNCHANGED FocusFrame

FocusMovesAny ==
    /\ \E e \in Elements \ {"inside"} : FocusMoves(e)
    /\ UNCHANGED FocusFrame

UnmountTrapAny ==
    /\ UnmountTrap
    /\ UNCHANGED FocusFrame

NextFocus ==
    MountTrapAny \/ SetActiveAny \/ TrapAnimationFrameAny \/ FocusMovesAny
        \/ UnmountTrapAny

\* no trap is rendered and focus is on the body
FocusIdle ==
    /\ activeElement = "body"
    /\ trap = NoTrap
    /\ focusBefore = "body"

\* ------------------------------------------------------------------------
\* components/ui/alert-dialog.tsx (AlertDialogContent: body scroll lock
\* and initial focus effect)
\* ------------------------------------------------------------------------
Dialogs == 1..MaxDialogs

\* the trigger of dialog n and the first focusable element of its content
Trigger(n) == "trigger" \o NumberToString(n)

Content(n) == "content" \o NumberToString(n)

\* a dialog whose effect is not in force
ClosedDialog == [isOpen |-> FALSE, originalOverflow |-> "", frame |-> FALSE]

\* isOpen becomes true and the effect runs: it saves the body's inline
\* overflow in its closure, hides the overflow and asks for an animation
\* frame to focus the first focusable element
OpenDialog(n) ==
    /\ ~dialogs[n].isOpen
    /\ dialogs' = [dialogs EXCEPT ![n] =
                       [isOpen |-> TRUE,
                        originalOverflow |-> document.bodyOverflow,
                        frame |-> TRUE]]
    /\ document' = [document EXCEPT !.bodyOverflow = "hidden"]
    /\ overflowBefore' = IF \A m \in Dialogs : ~dialogs[m].isOpen
                         THEN document.bodyOverflow
                         ELSE overflowBefore
    /\ UNCHANGED activeElement

\* the callback of requestAnimationFrame; the effect's cleanup does not
\* cancel it, and after a close the element may or may not be left to
\* take focus
DialogAnimationFrame(n) ==
    /\ dialogs[n].frame
    /\ dialogs' = [dialogs EXCEPT ![n].frame = FALSE]
    /\ activeElement' \in IF dialogs[n].isOpen THEN {Content(n)}
                          ELSE {Content(n), activeElement}
    /\ UNCHANGED <<document, overflowBefore>>

\* isOpen becomes false and the cleanup of the effect runs: it puts back
\* the overflow its own effect saved and focuses the trigger
CloseDialog(n) ==
    /\ dialogs[n].isOpen
    /\ document' = [document EXCEPT
                        !.bodyOverflow = dialogs[n].originalOverflow]
    /\ activeElement' = Trigger(n)
    /\ dialogs' = [dialogs EXCEPT ![n] =
                       [ClosedDialog EXCEPT !.frame = dialogs[n].frame]]
    /\ UNCHANGED overflowBefore

OpenDialogAny ==
    /\ \E n \in Dialogs : OpenDialog(n)
    /\ UNCHANGED DialogFrame

DialogAnimationFrameAny ==
    /\ \E n \in Dialogs : DialogAnimationFrame(n)
    /\ UNCHANGED DialogFrame

CloseDialogAny ==
    /\ \E n \in Dialogs : CloseDialog(n)
    /\ UNCHANGED DialogFrame

NextDialogs == OpenDialogAny \/ DialogAnimationFrameAny \/ CloseDialogAny

\* every dialog is closed
DialogsIdle ==
    /\ dialogs = [n \in Dialogs |-> ClosedDialog]
    /\ overflowBefore = ""

\* ------------------------------------------------------------------------
\* hooks/use-low-power-device.ts (battery manager subscription)
\* ------------------------------------------------------------------------
Subscribers == 1..MaxSubscribers

\* a callback nobody has subscribed
NotSubscribed == [subscribed |-> FALSE, pending |-> 0]

\* the value the promise of getBatteryManager() resolves to, once it does:
\* whether it is a manager (lines 57-67)
ResolvedBattery == getBattery = "resolves"

\* the promise returned by getBatteryManager() has resolved: the manager
\* is cached, or the cached promise has settled, or there is no
\* navigator.getBattery (lines 58-63)
BatteryLookupDone == batteryManager \/ batteryPromise # "pending"

\* nav.getBattery() settles and `batteryManager = await batteryPromise`
\* continues (lines 65-66)
BatterySettles ==
    /\ batteryPromise = "pending"
    /\ batteryPromise' = "settled"
    /\ batteryManager' = ResolvedBattery
    /\ UNCHANGED <<getBattery, subscribers, listeners>>

\* subscribe(callback): the lookup is started and its then-callback is
\* left to run later (lines 145-150)
Subscribe(s) ==
    /\ ~subscribers[s].subscribed
    /\ subscribers[s].pending < MaxPending
    /\ subscribers' = [subscribers EXCEPT ![s] =
                           [subscribed |-> TRUE, pending |-> @.pending + 1]]
    /\ UNCHANGED <<getBattery, batteryManager, batteryPromise, listeners>>

\* the then-callback of a subscribe runs (lines 145-150)
ThenRuns(s) ==
    /\ subscribers[s].pending > 0
    /\ BatteryLookupDone
    /\ subscribers' = [subscribers EXCEPT ![s].pending = @ - 1]
    /\ listeners' = IF ResolvedBattery THEN listeners \cup {s} ELSE listeners
    /\ UNCHANGED <<getBattery, batteryManager, batteryPromise>>

\* the function subscribe returned is called (lines 153-158)
Unsubscribe(s) ==
    /\ subscribers[s].subscribed
    /\ subscribers' = [subscribers EXCEPT ![s].subscribed = FALSE]
    /\ listeners' = IF batteryManager THEN listeners \ {s} ELSE listeners
    /\ UNCHANGED <<getBattery, batteryManager, batteryPromise>>

BatterySettlesAny ==
    /\ BatterySettles
    /\ UNCHANGED BatteryFrame

SubscribeAny ==
    /\ \E s \in Subscribers : Subscribe(s)
    /\ UNCHANGED BatteryFrame

ThenRunsAny ==
    /\ \E s \in Subscribers : ThenRuns(s)
    /\ UNCHANGED BatteryFrame

UnsubscribeAny ==
    /\ \E s \in Subscribers : Unsubscribe(s)
    /\ UNCHANGED BatteryFrame

NextBattery ==
    BatterySettlesAny \/ SubscribeAny \/ ThenRunsAny \/ UnsubscribeAny

\* the module has been loaded where navigator.getBattery exists with the
\* given outcome, or does not exist: the load-time getBatteryManager()
\* call (lines 70-73) has left the promise pending or has returned null
ModuleLoaded(outcome) ==
    /\ getBattery = outcome
    /\ batteryManager = FALSE
    /\ batteryPromise = IF outcome = "absent" THEN "null" ELSE "pending"
    /\ subscribers = [s \in Subscribers |-> NotSubscribed]
    /\ listeners = {}

\* no Battery API and no subscriber
BatteryIdle == ModuleLoaded("absent")

InitRun ==
    /\ outputs = [p \in {} |-> 0]
    /\ history = <<>>
    /\ log = <<>>
    /\ io = <<>>
    /\ pc = "start"
    /\ i = 1
    /\ ScrollIdle
    /\ BatteryIdle
    /\ FocusIdle
    /\ DialogsIdle
    /\ document = PlainDocument
    /\ ControllableIdle

Init ==
    /\ components \in SmallRegistries
    /\ disk \in Disks(Paths)
    /\ unwritable \in WriteFailures(components)
    /\ InitRun

Spec == Init /\ [][Next]_vars

InitShipped ==
    /\ components = ShippedComponents
    /\ disk \in Disks(FilePathsOf(ShippedComponents))
    /\ unwritable \in WriteFailures(components)
    /\ InitRun

SpecShipped == InitShipped /\ [][Next]_vars

\* the source files after edits made between two invocations: unchanged,
\* or one file edited, or one file removed
DisksAfter(d) ==
    {d} \cup
    {[d EXCEPT ![p] = [ok |-> TRUE, text |-> "edited " \o SourceText(p)]] :
        p \in DOMAIN d} \cup
    {[d EXCEPT ![p] = [ok |-> FALSE, code |-> "ENOENT"]] : p \in DOMAIN d}

\* the script is invoked again: a new process, the same output directory
Rerun ==
    /\ pc = "done"
    /\ history = <<>>
    /\ history' = <<[outputs |-> outputs, disk |-> disk,
                     unwritable |-> unwritable, log |-> log]>>
    /\ disk' \in DisksAfter(disk)
    /\ unwritable' \in WriteFailures(components)
    /\ log' = <<>>
    /\ io' = <<>>
    /\ pc' = "start"
    /\ i' = 1
    /\ UNCHANGED <<hookVars, components, outputs>>

NextTwice == Start \/ LoopBody \/ UpdateMainRegistry \/ Complete \/ Rerun

InitTwice ==
    /\ components \in {r \in SmallRegistries :
                           /\ Len(r[1].files) <= 1
                           /\ Len(r[1].inlineDependencies) <= 1}
    /\ disk \in Disks(Paths)
    /\ unwritable \in WriteFailures(components)
    /\ InitRun

SpecTwice == InitTwice /\ [][NextTwice]_vars

\* the script is synchronous: every statement that is reached completes
\* and the next one is executed
FairShipped == SpecShipped /\ WF_vars(Next)

\* the registry script is not running
RegistryIdle ==
    /\ components = <<>>
    /\ disk = [p \in {} |-> 0]
    /\ unwritable = {}
    /\ outputs = [p \in {} |-> 0]
    /\ history = <<>>
    /\ log = <<>>
    /\ io = <<>>
    /\ pc = "start"
    /\ i = 1

InitScroll ==
    /\ RegistryIdle
    /\ ScrollIdle
    /\ BatteryIdle
    /\ FocusIdle
    /\ DialogsIdle
    /\ document \in Documents
    /\ ControllableIdle

SpecScroll == InitScroll /\ [][NextScroll]_vars

InitControllable ==
    /\ RegistryIdle
    /\ ScrollIdle
    /\ BatteryIdle
    /\ FocusIdle
    /\ DialogsIdle
    /\ document = PlainDocument
    /\ \E prop \in {Undefined, <<TRUE>>, <<FALSE>>} :
           \E defaultValue \in BOOLEAN : \E hasOnChange \in BOOLEAN :
               Mounted(prop, defaultValue, hasOnChange)

SpecControllable == InitControllable /\ [][NextControllable]_vars

InitFocus ==
    /\ RegistryIdle
    /\ ScrollIdle
    /\ BatteryIdle
    /\ DialogsIdle
    /\ document = PlainDocument
    /\ ControllableIdle
    /\ activeElement \in Elements \ {"inside"}
    /\ trap = NoTrap
    /\ focusBefore = activeElement

SpecFocus == InitFocus /\ [][NextFocus]_vars

InitDialogs ==
    /\ RegistryIdle
    /\ ScrollIdle
    /\ BatteryIdle
    /\ ControllableIdle
    /\ FocusIdle
    /\ document \in Documents
    /\ dialogs = [n \in Dialogs |-> ClosedDialog]
    /\ overflowBefore = document.bodyOverflow

SpecDialogs == InitDialogs /\ [][NextDialogs]_vars

InitBattery ==
    /\ RegistryIdle
    /\ ScrollIdle
    /\ document = PlainDocument
    /\ ControllableIdle
    /\ DialogsIdle
    /\ FocusIdle
    /\ \E outcome \in {"absent", "resolves", "rejects"} : ModuleLoaded(outcome)

SpecBattery == InitBattery /\ [][NextBattery]_vars

TypeOK ==
    /\ pc \in {"start", "loop", "index", "complete", "done"}
    /\ i \in 1..(Len(components) + 1)
    /\ DOMAIN outputs \subseteq
           ManifestPaths(components) \cup {RegistryPath, PublicRegistryPath}
\* ------------------------------------------------------------------------
\* Project-internal modules imported by the shipped source files
\* (the "@/lib/utils" import is the shadcn built-in and is left out)
\* ------------------------------------------------------------------------
ButtonImports ==
    {"lib/animations.ts", "lib/icons.tsx", "components/motion-provider.tsx"}

AlertDialogImports ==
    {"lib/animations.ts", "components/motion-provider.tsx",
     "hooks/use-stable-id.ts", "hooks/use-controllable-state.ts"}

PopoverImports ==
    {"lib/animations.ts", "components/motion-provider.tsx",
     "hooks/use-stable-id.ts", "hooks/use-controllable-state.ts",
     "hooks/use-click-outside.tsx"}

DropdownMenuImports ==
    {"components/motion-provider.tsx", "hooks/use-stable-id.ts",
     "hooks/use-prevent-scroll.ts"}

PullDownImports == {"components/motion-provider.tsx"}

SheetImports == {"lib/icons.tsx", "components/motion-provider.tsx"}

MotionProviderImports ==
    {"hooks/use-reduced-motion.ts", "hooks/use-low-power-device.ts",
     "lib/motion.ts"}

IconsImports == {"lib/motion.ts"}

AnimationsImports == {"lib/tokens.ts"}

\* the import graph; a file with no project-internal import maps to {}
Imports(p) ==
    CASE p = "components/ui/button.tsx" -> ButtonImports
      [] p = "components/ui/alert-dialog.tsx" -> AlertDialogImports
      [] p = "components/ui/popover.tsx" -> PopoverImports
      [] p = "components/ui/dropdown-menu.tsx" -> DropdownMenuImports
      [] p = "components/ui/pull-down.tsx" -> PullDownImports
      [] p = "components/ui/sheet.tsx" -> SheetImports
      [] p = "components/motion-provider.tsx" -> MotionProviderImports
      [] p = "lib/icons.tsx" -> IconsImports
      [] p = "lib/animations.ts" -> AnimationsImports
      [] OTHER -> {}

\* ------------------------------------------------------------------------
\* Properties
\* ------------------------------------------------------------------------
N == Len(components)

Written(k) == OutputPath(components[k].name) \in DOMAIN outputs

ManifestOf(k) == outputs[OutputPath(components[k].name)]

ManifestPathSeq(k) ==
    [j \in 1..Len(ManifestOf(k).files) |-> ManifestOf(k).files[j].path]

HasLine(kind, k) ==
    \E j \in 1..Len(log) :
        log[j].line = kind /\ log[j].name = components[k].name

Attempted(k) == HasLine("updated", k) \/ HasLine("failed", k)

\* the files of each declared inline dependency, in declaration order;
\* a name that is no key of the map has no files
DeclaredDepFiles(k) ==
    [j \in 1..Len(components[k].inlineDependencies) |->
        IF HasKey(components, components[k].inlineDependencies[j])
        THEN Get(components, components[k].inlineDependencies[j]).files
        ELSE <<>>]

DeclaredFiles(k) == components[k].files \o Concat(DeclaredDepFiles(k))

PathsIn(files) == {files[j].path : j \in 1..Len(files)}

Unreadable(p) == ~ReadFileSync(disk, p).ok

ReadFails(k) == \E p \in PathsIn(DeclaredFiles(k)) : Unreadable(p)

WriteFails(k) == ~ReadFails(k) /\ OutputPath(components[k].name) \in unwritable

Dangling(k) ==
    \E j \in 1..Len(components[k].inlineDependencies) :
        ~HasKey(components, components[k].inlineDependencies[j])

\* C1: a component whose file read fails gets a failure line naming it,
\* and once the loop is over every component of the map has been
\* attempted, the ones after the failing component included.
C1_ReadFailureIsolated ==
    \A k \in 1..N :
        ReadFails(k) =>
            /\ (k < i \/ pc \in {"index", "complete", "done"}) =>
                   /\ HasLine("failed", k)
                   /\ ~HasLine("updated", k)
                   /\ \A j \in 1..Len(log) :
                          (log[j].line = "failed" /\ log[j].name = components[k].name)
                              => /\ log[j].error.code = "ENOENT"
                                 /\ Unreadable(log[j].error.path)
            /\ pc \in {"index", "complete", "done"} =>
                   \A m \in 1..N : Attempted(m)

C1_Witness ==
    /\ pc = "done"
    /\ \E k \in 1..(N - 1) :
           /\ ReadFails(k)
           /\ HasLine("failed", k)
           /\ HasLine("updated", k + 1)

\* C2: the files of a written manifest are the component's own files in
\* declared order, then the files of each inline dependency in the order
\* the dependencies are declared; with no inline dependency they are the
\* component's files; widget{a.tsx, [helper]} with helper{h.ts} gives
\* a.tsx then h.ts.
C2_ResolvedFileOrder ==
    \A k \in 1..N :
        Written(k) =>
            /\ [j \in 1..Len(ManifestOf(k).files) |->
                   [path |-> ManifestOf(k).files[j].path,
                    type |-> ManifestOf(k).files[j].type]] = DeclaredFiles(k)
            /\ components[k].inlineDependencies = <<>> =>
                   ManifestPathSeq(k) =
                       [j \in 1..Len(components[k].files) |->
                           components[k].files[j].path]
            /\ ( /\ components[k].name = "widget"
                 /\ components[k].files = <<FileOf("a.tsx")>>
                 /\ components[k].inlineDependencies = <<"helper">>
                 /\ Get(components, "helper").files = <<FileOf("h.ts")>> ) =>
                   ManifestPathSeq(k) = <<"a.tsx", "h.ts">>

C2_Witness ==
    /\ Written(1)
    /\ components[1].files = <<FileOf("a.tsx")>>
    /\ components[1].inlineDependencies = <<"helper">>
    /\ Get(components, "helper").files = <<FileOf("h.ts")>>
    /\ ManifestPathSeq(1) = <<"a.tsx", "h.ts">>

\* C3: every file of a written manifest is one of the component's own
\* files or a file of a directly named inline dependency.
C3_OneLevelOnly ==
    \A k \in 1..N :
        Written(k) =>
            \A p \in PathsIn(ManifestOf(k).files) :
                \/ p \in PathsIn(components[k].files)
                \/ \E d \in Range(components[k].inlineDependencies) :
                       /\ HasKey(components, d)
                       /\ p \in PathsIn(Get(components, d).files)

C3_Witness ==
    /\ Written(1)
    /\ "helper" \in Range(components[1].inlineDependencies)
    /\ "extra" \notin Range(components[1].inlineDependencies)
    /\ Get(components, "helper").inlineDependencies = <<"extra">>
    /\ "x.ts" \in PathsIn(Get(components, "extra").files)
    /\ "x.ts" \notin PathsIn(ManifestOf(1).files)

\* C4: with inline dependencies, the manifest has as many files as the
\* component declares plus the files of every inline dependency entry,
\* repeated files counted each time.
C4_AdditiveLength ==
    \A k \in 1..N :
        (Written(k) /\ components[k].inlineDependencies # <<>>) =>
            Len(ManifestOf(k).files) =
                Len(components[k].files) + SumLens(DeclaredDepFiles(k))

C4_Witness ==
    /\ Written(1)
    /\ components[1].inlineDependencies # <<>>
    /\ \E a, b \in 1..Len(ManifestOf(1).files) :
           /\ a <= Len(components[1].files)
           /\ b > Len(components[1].files)
           /\ ManifestOf(1).files[a].path = ManifestOf(1).files[b].path

Processed(k) == k < i \/ pc \in {"index", "complete", "done"}

\* C5: a component one of whose inline dependencies is no key of the
\* map, and whose files can be read and written, is built successfully:
\* no failure is logged for it and its manifest holds its own files and
\* the files of the dependencies that are keys, nothing for the missing
\* name.
C5_DanglingSkippedSilently ==
    \A k \in 1..N :
        (Dangling(k) /\ Processed(k) /\ ~ReadFails(k) /\ ~WriteFails(k)) =>
            /\ HasLine("updated", k)
            /\ ~HasLine("failed", k)
            /\ Written(k)
            /\ Len(ManifestOf(k).files) =
                   Len(components[k].files) + SumLens(DeclaredDepFiles(k))
            /\ PathsIn(ManifestOf(k).files) = PathsIn(DeclaredFiles(k))

C5_Witness ==
    /\ components[1].inlineDependencies = <<"ghost", "helper">>
    /\ Written(1)
    /\ HasLine("updated", 1)
    /\ Len(ManifestOf(1).files) =
           Len(components[1].files) + Len(Get(components, "helper").files)

\* C6 as stated: a processed component with a dangling inline dependency
\* is reported as failed.
C6_DanglingIsBuildError ==
    \A k \in 1..N : (Dangling(k) /\ Processed(k)) => HasLine("failed", k)

\* C6 amended: a dangling inline dependency is no build error; every
\* failure reported for a component is a file of its resolved list that
\* cannot be read or its manifest that cannot be written.
C6_OnlyIoFailuresReported ==
    \A j \in 1..Len(log) :
        log[j].line = "failed" =>
            \E k \in 1..N :
                /\ components[k].name = log[j].name
                /\ \/ /\ log[j].error.code = "ENOENT"
                      /\ log[j].error.path \in PathsIn(DeclaredFiles(k))
                      /\ Unreadable(log[j].error.path)
                   \/ /\ log[j].error.code = "EACCES"
                      /\ log[j].error.path = OutputPath(components[k].name)
                      /\ log[j].error.path \in unwritable

C6_Witness ==
    /\ pc = "done"
    /\ Dangling(1)
    /\ \A d \in Range(components[1].inlineDependencies) :
           ~HasKey(components, d)
    /\ HasLine("updated", 1)
    /\ \A j \in 1..Len(log) : log[j].line # "failed"

\* C7 as stated: a failed manifest write ends the run, nothing is
\* printed after its failure.
C7_WriteFailureEndsRun ==
    \A j \in 1..Len(log) :
        (log[j].line = "failed" /\ log[j].error.code = "EACCES") =>
            j = Len(log)

\* C7 amended: a failed manifest write is caught for that component: a
\* failure naming it is logged, nothing is written for it, and every
\* other component and the index are still processed.
C7_WriteFailureIsolated ==
    \A k \in 1..N :
        WriteFails(k) =>
            /\ Processed(k) =>
                   /\ ~Written(k)
                   /\ \E j \in 1..Len(log) :
                          log[j] = Line("failed", components[k].name,
                                        [code |-> "EACCES",
                                         path |-> OutputPath(components[k].name)])
            /\ pc \in {"index", "complete", "done"} =>
                   \A m \in 1..N : Attempted(m)
            /\ pc \in {"complete", "done"} =>
                   \E j \in 1..Len(log) :
                       log[j].line \in {"registry", "registry-failed"}

C7_Witness ==
    /\ pc = "done"
    /\ WriteFails(1)
    /\ HasLine("failed", 1)
    /\ HasLine("updated", 2)
    /\ RegistryPath \in DOMAIN outputs
    /\ PublicRegistryPath \in DOMAIN outputs

\* C8 as stated: the light and dark blocks of a cssVars manifest have
\* the same keys.
C8_LightDarkSameKeys ==
    \A k \in 1..N :
        (Written(k) /\ components[k].cssVars) =>
            /\ "cssVars" \in DOMAIN ManifestOf(k)
            /\ {"light", "dark"} \subseteq DOMAIN ManifestOf(k).cssVars
            /\ DOMAIN ManifestOf(k).cssVars.light =
                   DOMAIN ManifestOf(k).cssVars.dark

\* C8 amended: a cssVars manifest has a light and a dark block, every
\* key of dark is a key of light, and light has one key more, radius.
C8_LightDarkSameKeysButRadius ==
    \A k \in 1..N :
        (Written(k) /\ components[k].cssVars) =>
            /\ "cssVars" \in DOMAIN ManifestOf(k)
            /\ {"light", "dark"} \subseteq DOMAIN ManifestOf(k).cssVars
            /\ DOMAIN ManifestOf(k).cssVars.dark \subseteq
                   DOMAIN ManifestOf(k).cssVars.light
            /\ DOMAIN ManifestOf(k).cssVars.light \
                   DOMAIN ManifestOf(k).cssVars.dark = {"radius"}

C8_Witness ==
    /\ Written(1)
    /\ components[1].cssVars
    /\ "radius" \in DOMAIN ManifestOf(1).cssVars.light
    /\ "radius" \notin DOMAIN ManifestOf(1).cssVars.dark
    /\ "background" \in DOMAIN ManifestOf(1).cssVars.dark

\* C9: every project-internal module imported by a file embedded in a
\* written manifest is embedded in the same manifest.
C9_SelfContained ==
    \A k \in 1..N :
        Written(k) =>
            \A p \in PathsIn(ManifestOf(k).files) :
                Imports(p) \subseteq PathsIn(ManifestOf(k).files)

\* the names reachable from a set of names through inlineDependencies
RECURSIVE InlineClosure(_)
InlineClosure(names) ==
    LET step == names \cup
                UNION {Range(Get(components, n).inlineDependencies) :
                          n \in {m \in names : HasKey(components, m)}}
    IN  IF step = names THEN names ELSE InlineClosure(step)

ClosureFiles(k) ==
    UNION {PathsIn(Get(components, n).files) :
              n \in {m \in InlineClosure({components[k].name}) :
                         HasKey(components, m)}}

\* C10: in the shipped map, the set of files of a written manifest is
\* the union of the files of every component reachable from it through
\* inlineDependencies.
C10_ShippedTransitiveClosure ==
    \A k \in 1..N :
        Written(k) => PathsIn(ManifestOf(k).files) = ClosureFiles(k)

C10_Witness ==
    /\ components[1].name = "button"
    /\ Written(1)
    /\ "icons" \in Range(components[1].inlineDependencies)
    /\ "motion-provider" \in Range(Get(components, "icons").inlineDependencies)
    /\ InlineClosure({"button"}) = {"button", "motion-provider", "icons"}
    /\ "lib/motion.ts" \in PathsIn(ManifestOf(1).files)
    /\ Len(ManifestOf(1).files) = 6

\* the output paths whose write a run has reported
WrittenIn(lg) ==
    {OutputPath(lg[j].name) : j \in {m \in 1..Len(lg) : lg[m].line = "updated"}}
    \cup {RegistryPath : j \in {m \in 1..Len(lg) : lg[m].line = "registry"}}
    \cup {PublicRegistryPath :
              j \in {m \in 1..Len(lg) : lg[m].line = "public-registry"}}

SecondRunDone == pc = "done" /\ history # <<>>

\* C11: when the script has run twice on the same source files, every
\* document both runs wrote is the same document; when the same writes
\* fail in both runs, the whole output directory is the same after the
\* second run as after the first.
C11_Idempotent ==
    (SecondRunDone /\ history[1].disk = disk) =>
        /\ \A p \in WrittenIn(log) \cap WrittenIn(history[1].log) :
               outputs[p] = history[1].outputs[p]
        /\ history[1].unwritable = unwritable =>
               /\ WrittenIn(log) = WrittenIn(history[1].log)
               /\ outputs = history[1].outputs

C11_Witness ==
    /\ SecondRunDone
    /\ history[1].disk = disk
    /\ history[1].unwritable = unwritable
    /\ components[1].inlineDependencies # <<>>
    /\ {OutputPath(components[1].name), RegistryPath, PublicRegistryPath}
           \subseteq WrittenIn(log)
    /\ Len(outputs[OutputPath(components[1].name)].files) > 1

\* the manifests the current run has reported as written
UpdatedNow(k) == OutputPath(components[k].name) \in WrittenIn(log)

\* the source files after every embedded file of a manifest is written
\* back to its path
WrittenBack(k) ==
    [p \in DOMAIN disk |->
        IF \E j \in 1..Len(ManifestOf(k).files) : ManifestOf(k).files[j].path = p
        THEN [ok |-> TRUE,
              text |-> ManifestOf(k).files[
                           CHOOSE j \in 1..Len(ManifestOf(k).files) :
                               ManifestOf(k).files[j].path = p].content]
        ELSE disk[p]]

\* C12: every file entry of a manifest written by the current run holds
\* the text read from the source file at its path, unchanged, so writing
\* the contents back leaves the source files as they are.
C12_ContentLossless ==
    \A k \in 1..N :
        UpdatedNow(k) =>
            /\ \A j \in 1..Len(ManifestOf(k).files) :
                   /\ disk[ManifestOf(k).files[j].path].ok
                   /\ ManifestOf(k).files[j].content =
                          disk[ManifestOf(k).files[j].path].text
            /\ WrittenBack(k) = disk

C12_Witness ==
    /\ history # <<>>
    /\ UpdatedNow(1)
    /\ Len(ManifestOf(1).files) = 2
    /\ ManifestOf(1).files[1].path = "a.tsx"
    /\ ManifestOf(1).files[1].content = "edited source of a.tsx"
    /\ ManifestOf(1).files[2].content = "source of h.ts"

\* C13: a written manifest has the cssVars block (light, dark, theme)
\* and the css block exactly when the component's cssVars flag is set,
\* and the blocks are the same in every manifest that has them.
C13_CssBlocksIffFlag ==
    /\ \A k \in 1..N :
           Written(k) =>
               /\ components[k].cssVars <=> "cssVars" \in DOMAIN ManifestOf(k)
               /\ components[k].cssVars <=> "css" \in DOMAIN ManifestOf(k)
               /\ components[k].cssVars =>
                      DOMAIN ManifestOf(k).cssVars = {"light", "dark", "theme"}
    /\ \A k, m \in 1..N :
           (Written(k) /\ Written(m) /\ components[k].cssVars
                /\ components[m].cssVars) =>
               /\ ManifestOf(k).cssVars = ManifestOf(m).cssVars
               /\ ManifestOf(k).css = ManifestOf(m).css

C13_Witness ==
    /\ Written(1) /\ Written(2) /\ Written(3)
    /\ ~components[1].cssVars
    /\ components[2].cssVars /\ components[3].cssVars
    /\ "cssVars" \notin DOMAIN ManifestOf(1)
    /\ ManifestOf(2).cssVars.light["background"] = "oklch(1 0 0)"
    /\ ManifestOf(3).css = ManifestOf(2).css

SummaryOk(item, k) ==
    /\ DOMAIN item = {"name", "type", "title", "description", "dependencies",
                      "registryDependencies", "files"}
    /\ item.name = components[k].name
    /\ item.type = components[k].type
    /\ item.title = components[k].title
    /\ item.description = components[k].description
    /\ item.dependencies = components[k].dependencies
    /\ item.registryDependencies = components[k].registryDependencies
    /\ Len(item.files) = Len(components[k].files)
    /\ \A j \in 1..Len(item.files) :
           /\ DOMAIN item.files[j] = {"path", "type"}
           /\ item.files[j].path = components[k].files[j].path
           /\ item.files[j].type = components[k].files[j].type

\* C14: an index written by the current run has one summary per entry
\* of the map, in the order of the map, with the seven summary fields
\* and the component's own files as path and type only.
C14_IndexSummaries ==
    \A p \in {RegistryPath, PublicRegistryPath} \cap WrittenIn(log) :
        /\ Len(outputs[p].items) = N
        /\ \A k \in 1..N : SummaryOk(outputs[p].items[k], k)

C14_Witness ==
    /\ {RegistryPath, PublicRegistryPath} \subseteq WrittenIn(log)
    /\ UpdatedNow(1)
    /\ Len(components[1].files) = 1
    /\ Len(ManifestOf(1).files) = 3
    /\ Len(outputs[RegistryPath].items[1].files) = 1
    /\ "content" \in DOMAIN ManifestOf(1).files[1]

\* C15: when the index builder has completed, the top-level index and
\* the public index are the same document, with the fixed schema, name,
\* version and homepage and one item per entry of the map.
C15_IndexCopiesIdentical ==
    PublicRegistryPath \in WrittenIn(log) =>
        /\ RegistryPath \in WrittenIn(log)
        /\ outputs[RegistryPath] = outputs[PublicRegistryPath]
        /\ \A p \in {RegistryPath, PublicRegistryPath} :
               /\ DOMAIN outputs[p] =
                      {"schema", "name", "version", "homepage", "items"}
               /\ outputs[p].schema = "https://ui.shadcn.com/schema/registry.json"
               /\ outputs[p].name = "edbn-ui"
               /\ outputs[p].version = "0.2.0"
               /\ outputs[p].homepage = "https://ui.edbn.me"
               /\ Len(outputs[p].items) = N

C15_Witness ==
    /\ pc = "done"
    /\ PublicRegistryPath \in WrittenIn(log)
    /\ outputs[RegistryPath] = outputs[PublicRegistryPath]
    /\ \E k \in 1..N : HasLine("failed", k)

ManifestFields ==
    {"schema", "name", "type", "title", "description", "dependencies",
     "registryDependencies", "files", "cssVars", "tailwind", "css"}

\* the document at out is built from the map entry k and the source
\* files as they are now, and from nothing else
FreshManifest(doc, k) ==
    /\ DOMAIN doc \subseteq ManifestFields
    /\ doc.name = components[k].name
    /\ [j \in 1..Len(doc.files) |->
           [path |-> doc.files[j].path, type |-> doc.files[j].type]]
           = DeclaredFiles(k)
    /\ \A j \in 1..Len(doc.files) :
           doc.files[j].content = disk[doc.files[j].path].text

\* C16: an iteration of the loop that reports success leaves at
\* public/r/<name>.json a manifest built from scratch, whatever was
\* there before, and no iteration changes or creates another output.
C16_ManifestReplaced ==
    [][pc = "loop" =>
          LET out == OutputPath(components[i].name)
          IN  /\ DOMAIN outputs \subseteq DOMAIN outputs'
              /\ \A p \in DOMAIN outputs' \ {out} :
                     p \in DOMAIN outputs /\ outputs'[p] = outputs[p]
              /\ log' = Append(log, Line("updated", components[i].name, NoError))
                     => /\ out \in DOMAIN outputs'
                        /\ FreshManifest(outputs'[out], i)]_vars

C16_Witness ==
    /\ history # <<>>
    /\ pc = "done"
    /\ UpdatedNow(1)
    /\ OutputPath(components[1].name) \in DOMAIN history[1].outputs
    /\ components[1].files = <<FileOf("a.tsx")>>
    /\ history[1].outputs[OutputPath(components[1].name)].files[1].content
           = "source of a.tsx"
    /\ ManifestOf(1).files[1].content = "edited source of a.tsx"
    /\ Len(ManifestOf(1).files) =
           Len(history[1].outputs[OutputPath(components[1].name)].files)
    /\ OutputPath(components[3].name) \in DOMAIN history[1].outputs
    /\ ManifestOf(3) = history[1].outputs[OutputPath(components[3].name)]

\* C17: a written manifest carries the registryDependencies of the map
\* entry unchanged, and a file of a component named only there is in the
\* manifest only if the component's own files or a directly named inline
\* dependency bring it in.
C17_RegistryDepsNotBundled ==
    \A k \in 1..N :
        Written(k) =>
            /\ ManifestOf(k).registryDependencies =
                   components[k].registryDependencies
            /\ \A d \in Range(components[k].registryDependencies) :
                   (HasKey(components, d)
                      /\ d \notin Range(components[k].inlineDependencies)) =>
                       \A p \in PathsIn(Get(components, d).files) :
                           p \in PathsIn(ManifestOf(k).files) =>
                               p \in PathsIn(DeclaredFiles(k))

C17_Witness ==
    /\ components[2].name = "alert-dialog"
    /\ Written(2)
    /\ ManifestOf(2).registryDependencies = <<"utils", "button">>
    /\ HasKey(components, "button")
    /\ "components/ui/button.tsx" \notin PathsIn(ManifestOf(2).files)
    /\ "components/ui/alert-dialog.tsx" \in PathsIn(ManifestOf(2).files)

ResultLines(k) ==
    {j \in 1..Len(log) :
        /\ log[j].line \in {"updated", "failed"}
        /\ log[j].name = components[k].name}

RunFinished ==
    /\ pc = "done"
    /\ \A k \in 1..N : Cardinality(ResultLines(k)) = 1
    /\ Cardinality({j \in 1..Len(log) : log[j].line \in {"updated", "failed"}}) = N
    /\ log[Len(log)].line = "complete"
    /\ Cardinality({j \in 1..Len(log) : log[j].line = "complete"}) = 1
    /\ \A k \in 1..N : \A j \in ResultLines(k) : j < Len(log)

\* C18: every run reaches its end, and at the end exactly one result
\* line has been printed for each component of the map, followed by
\* the final summary line.
C18_RunTerminates == <>RunFinished

C18_Witness ==
    /\ RunFinished
    /\ \E k \in 1..N : HasLine("failed", k)
    /\ \E k \in 1..N : HasLine("updated", k)
    /\ \E j \in 1..Len(log) : log[j].line = "registry-failed"

\* C19: for every written manifest, each package listed in the
\* dependencies of an inline dependency of the component is listed in
\* the manifest's own dependencies.
C19_InlinePackagesListed ==
    \A k \in 1..N :
        Written(k) =>
            \A depName \in Range(components[k].inlineDependencies) :
                HasKey(components, depName) =>
                    Range(Get(components, depName).dependencies)
                        \subseteq Range(ManifestOf(k).dependencies)

\* the call sites that hold a lock
Holders == {n \in Instances : instances[n].wasLockedRef}

PageLocked ==
    /\ document.htmlOverflow = "hidden"
    /\ document.bodyOverflow = "hidden"

\* the inline styles that lockScroll saves
PageStyles(doc) ==
    [bodyOverflow |-> doc.bodyOverflow,
     bodyPaddingRight |-> doc.bodyPaddingRight,
     htmlOverflow |-> doc.htmlOverflow]

SavedStyles(saved) ==
    [bodyOverflow |-> saved.bodyOverflow,
     bodyPaddingRight |-> saved.bodyPaddingRight,
     htmlOverflow |-> saved.htmlOverflow]

\* C20: in every step of any number of call sites locking and unlocking
\* in any order, the lock count equals the number of holders and is
\* never negative, the page is scroll-locked while somebody holds a
\* lock, the styles of the page and the saved original styles do not
\* change while holders remain, and the step in which the last holder
\* releases puts back exactly the styles the page had when the first
\* lock was taken.
C20_NestedLocks ==
    [][/\ scrollLockCount' >= 0
       /\ scrollLockCount' = Cardinality(Holders')
       /\ (Holders' # {} => PageLocked')
       /\ (Holders = {} /\ Holders' # {} =>
               /\ originalStyles' # Null
               /\ SavedStyles(originalStyles') = PageStyles(document))
       /\ (Holders # {} /\ Holders' # {} =>
               /\ originalStyles' = originalStyles
               /\ document' = document)
       /\ (Holders # {} /\ Holders' = {} =>
               /\ PageStyles(document') = SavedStyles(originalStyles)
               /\ originalStyles' = Null)
       /\ (Holders = {} /\ Holders' = {} => document' = document)]_vars

\* the first holder has released while a later one still holds: the saved
\* scrollbar width is the one of a call site that did not reserve the gap
C20_Witness ==
    /\ Holders = {2}
    /\ ~instances[1].mounted
    /\ scrollLockCount = 1
    /\ instances[2].reserveScrollBarGap
    /\ document.scrollbar = 15
    /\ originalStyles # Null
    /\ originalStyles.scrollbarWidth = 0
    /\ document.bodyPaddingRight = "8px"
    /\ PageLocked

\* C23: no step of a run changes the component map; in particular every
\* entry's files list stays what it was when the run started.
C23_MapNeverMutated ==
    [][/\ components' = components
       /\ \A k \in 1..N : components'[k].files = components[k].files]_vars

\* a component with inline dependencies was built, a later component and
\* the index were built after it, and the index shows the declared files
C23_Witness ==
    /\ pc = "done"
    /\ Written(1)
    /\ Len(ManifestOf(1).files) > Len(components[1].files)
    /\ Written(2)
    /\ RegistryPath \in DOMAIN outputs
    /\ Len(outputs[RegistryPath].items[1].files) = Len(components[1].files)

\* the file-system calls one component is due: its own files, then the
\* files of its inline dependencies, read in order up to the first one
\* that cannot be read, and after the last read the write of its manifest
CallsDue(k) ==
    LET files == DeclaredFiles(k)
        bad == {j \in 1..Len(files) : Unreadable(files[j].path)}
        n == IF bad = {} THEN Len(files)
             ELSE CHOOSE j \in bad : \A m \in bad : j <= m
    IN  [j \in 1..n |-> [op |-> "read", path |-> files[j].path]]
        \o (IF bad = {}
            THEN <<[op |-> "write", path |-> OutputPath(components[k].name)]>>
            ELSE <<>>)

\* the number of components the loop is through with
LoopDone ==
    IF pc = "start" THEN 0 ELSE IF pc = "loop" THEN i - 1 ELSE N

CallsDueSoFar == Concat([k \in 1..LoopDone |-> CallsDue(k)])

\* C24: the file-system calls made so far are, component after component
\* in map order, the reads of that component followed by its write; no
\* call of a later component comes before a call of an earlier one, and
\* the index is written after the calls of the last component.
C24_OneComponentAtATime ==
    LET due == CallsDueSoFar
    IN  /\ Len(io) >= Len(due)
        /\ SubSeq(io, 1, Len(due)) = due
        /\ pc \in {"start", "loop", "index"} => io = due
        /\ \A j \in (Len(due) + 1)..Len(io) :
               /\ io[j].op = "write"
               /\ io[j].path \in {RegistryPath, PublicRegistryPath}

\* the first component read two or more files and was written, a later
\* component failed on a read, and the run went on to the index
C24_Witness ==
    /\ pc = "done"
    /\ Len(DeclaredFiles(1)) >= 2
    /\ Written(1)
    /\ ReadFails(2)
    /\ Written(3)
    /\ Len(io) > Len(CallsDueSoFar)

\* the manifest path of component k as an earlier invocation left it
LeftBefore(k) ==
    IF history = <<>> THEN [p \in {} |-> 0] ELSE history[1].outputs

\* C25: for a component one of whose files cannot be read, the run makes
\* no write call on its manifest path, and the path holds what it held
\* before the run: nothing if no earlier run wrote it, the earlier
\* manifest otherwise.
C25_NothingWrittenOnReadFailure ==
    \A k \in 1..N :
        ReadFails(k) =>
            LET out == OutputPath(components[k].name)
            IN  /\ \A j \in 1..Len(io) :
                       ~(io[j].op = "write" /\ io[j].path = out)
                /\ out \in DOMAIN outputs <=> out \in DOMAIN LeftBefore(k)
                /\ out \in DOMAIN outputs => outputs[out] = LeftBefore(k)[out]

\* the second run is over; the first one wrote the first component's
\* manifest, and in the second its first file was read and a later one
\* could not be
C25_Witness ==
    /\ SecondRunDone
    /\ ReadFails(1)
    /\ HasLine("failed", 1)
    /\ Len(DeclaredFiles(1)) >= 2
    /\ ~Unreadable(DeclaredFiles(1)[1].path)
    /\ Written(1)
    /\ Len(ManifestOf(1).files) = Len(DeclaredFiles(1))

\* the names an index document lists
Listed(doc) == {doc.items[j].name : j \in 1..Len(doc.items)}

\* C26 as stated: every component listed in an index written by the run
\* has a manifest written by the same run.
C26_IndexListsOnlyBuilt ==
    \A p \in {RegistryPath, PublicRegistryPath} \cap WrittenIn(log) :
        \A k \in 1..N :
            components[k].name \in Listed(outputs[p]) => UpdatedNow(k)

\* C26 amended: an index written by the run lists every component of
\* the map, the ones whose manifest the run wrote and the ones whose
\* build failed alike.
C26_IndexListsWholeMap ==
    \A p \in {RegistryPath, PublicRegistryPath} \cap WrittenIn(log) :
        /\ Listed(outputs[p]) = {components[k].name : k \in 1..N}
        /\ \A k \in 1..N :
               (UpdatedNow(k) \/ HasLine("failed", k)) =>
                   components[k].name \in Listed(outputs[p])

C26_Witness ==
    /\ pc = "done"
    /\ {RegistryPath, PublicRegistryPath} \subseteq WrittenIn(log)
    /\ HasLine("failed", 1)
    /\ ~Written(1)
    /\ UpdatedNow(2)
    /\ components[1].name \in Listed(outputs[PublicRegistryPath])

\* C27: in every written manifest of a component with the cssVars flag,
\* cssVars.theme holds the global theme tokens of the first block with
\* their values and the Tailwind v4 mappings with theirs.
C27_ThemeExtended ==
    \A k \in 1..N :
        (Written(k) /\ components[k].cssVars) =>
            LET theme == ManifestOf(k).cssVars.theme
            IN  /\ \A t \in DOMAIN ThemeMapping :
                       t \in DOMAIN theme /\ theme[t] = ThemeMapping[t]
                /\ \A t \in DOMAIN GlobalThemeTokens :
                       t \in DOMAIN theme /\ theme[t] = GlobalThemeTokens[t]

\* C22: when the setter is called with a callback registered and no
\* update pending, onChange is invoked exactly if the resolved value
\* differs from the current value.
C22_OnChangeOnlyOnChange ==
    [][(setterCalls' = setterCalls + 1 /\ onChangeRef /\ stateQueue = <<>>) =>
           (Len(onChangeCalls') = Len(onChangeCalls) + 1
                <=> Resolve(issued'[Len(issued')], rendered.value)
                        # rendered.value)]_vars

\* C28: the render that follows setter calls on an uncontrolled call
\* site commits the state useState would: every argument issued since
\* the last render applied in order, each to the result of the one
\* before.
C28_FunctionalUpdatesChain ==
    [][(issued # <<>> /\ issued' = <<>> /\ ~rendered.isControlled) =>
           uncontrolledValue' = Reduce(issued, uncontrolledValue)]_vars

\* C21: in the step in which a trap with restoreFocus goes from active
\* to inactive, focus moves to the element that had it before the trap
\* was activated.
C21_FocusRestoredOnDeactivation ==
    [][(/\ trap.mounted /\ trap.isActive /\ trap.restoreFocus
        /\ trap'.mounted /\ ~trap'.isActive) =>
           activeElement' = focusBefore]_vars

\* C29: whenever every alert dialog is closed, the body's overflow is
\* what it was before the first of them opened.
C29_OverflowRestored ==
    (\A n \in Dialogs : ~dialogs[n].isOpen) =>
        document.bodyOverflow = overflowBefore

\* C30: a callback that is not subscribed is not registered on the
\* battery manager, at any time after its unsubscribe.
C30_NoListenerAfterUnsubscribe ==
    \A s \in Subscribers : ~subscribers[s].subscribed => s \notin listeners

====
